---- MODULE Spec2Model ----
(***************************************************************************)
(* ZenRead: the token-stream playback synchronizer of the Reader component *)
(* (src/components/Reader.tsx).                                            *)
(*                                                                         *)
(* A token is a sequence of one-character strings; a document is a         *)
(* sequence of tokens.  Every handler of the component is one action: the  *)
(* handler body, the re-render it causes and the effects of that render    *)
(* (indexRef, the wheel's snap effect, the voice-settings restart effect). *)
(* The speech engine is the browser's: it speaks the head of its queue,    *)
(* reports word boundaries, ends or fails utterances, and reports a        *)
(* terminal event for an utterance that cancel() removed.                  *)
(***************************************************************************)
EXTENDS Integers, Sequences, FiniteSets, TLC

\* ---------------------------------------------------------------- bounds
MaxTokens == 3
MaxPending == 1
LeadDelay == 600

\* ------------------------------------------------------ program constants
TARGET_SIZE == 4000
LOOKBACK == 500
SeekDelta == 10
SpritzWpm == 300
NormalWpm == 200
VoiceRate == 2
RateFactor == 200
MsPerMinute == 60000
SnapThreshold2 == 3

\* ------------------------------------------------------------- characters
NL == <<"\n">>
SentenceEnd == {".", "!", "?"}
PhraseEnd == {".", "!", "?", "\n", ",", ";", ":"}
Quotes == {"'", "\""}
WhiteSpace == {" ", "\n"}

Min(a, b) == IF a < b THEN a ELSE b
Max(a, b) == IF a > b THEN a ELSE b
Abs(a) == IF a < 0 THEN -a ELSE a
Range(s) == {s[i] : i \in 1..Len(s)}

\* /[.!?]$/.test(w)
EndsSentence(w) == Len(w) > 0 /\ w[Len(w)] \in SentenceEnd

\* /<set>['"]?$/.test(w)
EndsWithOptQuote(w, set) ==
    \/ Len(w) >= 1 /\ w[Len(w)] \in set
    \/ Len(w) >= 2 /\ w[Len(w)] \in Quotes /\ w[Len(w) - 1] \in set

\* words.slice(a, b).join(' ') with 0-based a (inclusive) and b (exclusive)
RECURSIVE JoinSpace(_, _, _)
JoinSpace(ws, a, b) ==
    IF a >= b THEN <<>>
    ELSE IF a + 1 = b THEN ws[a + 1]
    ELSE LET m == (a + b) \div 2
         IN JoinSpace(ws, a, m) \o <<" ">> \o JoinSpace(ws, m, b)

\* !text.trim()
IsBlank(text) == \A i \in 1..Len(text) : text[i] \in WhiteSpace

\* text.replace(/[.!?\n,;:]+$/, '')
RECURSIVE StripTrailing(_)
StripTrailing(text) ==
    IF Len(text) > 0 /\ text[Len(text)] \in PhraseEnd
    THEN StripTrailing(SubSeq(text, 1, Len(text) - 1))
    ELSE text

\* (text.slice(0, c).match(/ /g) || []).length
CountSpaces(text, c) == Cardinality({i \in 1..Min(c, Len(text)) : text[i] = " "})

\* ------------------------------------------------------------ the document
\* words[i] of the source (0-based) is ws[i + 1]; an index outside the array
\* reads undefined.
Defined(ws, i) == i >= 0 /\ i < Len(ws)
IsNewline(ws, i) == Defined(ws, i) /\ ws[i + 1] = NL

\* getSentenceRange: the break test of both loops
SentenceBreak(ws, i) ==
    \/ ~Defined(ws, i)
    \/ ws[i + 1] = NL
    \/ EndsSentence(ws[i + 1])

RECURSIVE SentenceStart(_, _)
SentenceStart(ws, start) ==
    IF start > 0 /\ ~SentenceBreak(ws, start - 1)
    THEN SentenceStart(ws, start - 1)
    ELSE start

RECURSIVE SentenceEndIdx(_, _)
SentenceEndIdx(ws, end) ==
    IF end < Len(ws) - 1 /\ ~SentenceBreak(ws, end)
    THEN SentenceEndIdx(ws, end + 1)
    ELSE end

\* A lookup whose forward scan starts at the token after the index
getSentenceRangeFromNext(ws, currentIdx) ==
    [start |-> SentenceStart(ws, currentIdx),
     end |-> SentenceEndIdx(ws, Min(currentIdx + 1, Len(ws) - 1))]

getSentenceRange(ws, currentIdx) ==
    [start |-> SentenceStart(ws, currentIdx), end |-> SentenceEndIdx(ws, currentIdx)]

\* getNextLargeChunk: the lookback loop, from lookback down to limit
\* (exclusive); it breaks at the first index it meets that ends a sentence or
\* is a line break, the highest such index above limit.
LargeChunkEnd(ws, lookback, limit, end) ==
    LET breaks == {k \in (limit + 1)..lookback :
                      Defined(ws, k) /\ (EndsSentence(ws[k + 1]) \/ ws[k + 1] = NL)}
    IN IF breaks = {} THEN end
       ELSE (CHOOSE k \in breaks : \A j \in breaks : j <= k) + 1

getNextLargeChunk(ws, startIndex) ==
    LET end0 == Min(Len(ws), startIndex + TARGET_SIZE)
        end1 == IF end0 < Len(ws)
                THEN LargeChunkEnd(ws, end0, Max(startIndex, end0 - LOOKBACK), end0)
                ELSE end0
    IN [start |-> startIndex, end |-> end1]

\* enqueueNextChunk: the forward scan of the phrase and sentence units
RECURSIVE ScanUnit(_, _, _)
ScanUnit(ws, endIdx, set) ==
    IF endIdx < Len(ws)
       /\ ~(EndsWithOptQuote(ws[endIdx + 1], set) \/ ws[endIdx + 1] = NL)
    THEN ScanUnit(ws, endIdx + 1, set)
    ELSE endIdx

RepeatModes == {"off", "word", "phrase", "sentence"}

\* enqueueNextChunk: the chunk selected at currentStart under a repeat mode
NextChunk(ws, currentStart, repeatMode) ==
    IF repeatMode = "word"
    THEN [start |-> currentStart, end |-> currentStart + 1]
    ELSE IF repeatMode = "phrase"
    THEN [start |-> currentStart,
          end |-> Min(Len(ws), ScanUnit(ws, currentStart, PhraseEnd) + 1)]
    ELSE IF repeatMode = "sentence"
    THEN [start |-> currentStart,
          end |-> Min(Len(ws), ScanUnit(ws, currentStart, SentenceEnd) + 1)]
    ELSE getNextLargeChunk(ws, currentStart)

\* chunk.text
ChunkText(ws, chunk) == JoinSpace(ws, chunk.start, chunk.end)

\* ------------------------------------------------------------- utterances
\* An utterance is the chunk it speaks and whether it repeats the chunk:
\* [start, end, rep].  Its texts are functions of the document.
TextMain(ws, u) == ChunkText(ws, u)
FirstPart(ws, u) == StripTrailing(TextMain(ws, u))
FullText(ws, u) ==
    IF u.rep THEN FirstPart(ws, u) \o <<" ">> \o TextMain(ws, u) ELSE TextMain(ws, u)
SplitPoint(ws, u) == Len(FirstPart(ws, u)) + 1

\* A variant of FoldedOffset that leaves the repeated half where it is; C9
\* fails under it.
FoldedOffsetUnfolded(ws, u, c) == c

\* u.onboundary: the character offset after the repeat logic has folded the
\* repeated half back onto the first one
FoldedOffset(ws, u, c) ==
    IF u.rep /\ c >= SplitPoint(ws, u) THEN c - SplitPoint(ws, u) ELSE c

\* u.onboundary: the early return of the repeat logic
BoundaryIgnored(ws, u, c) == u.rep /\ FoldedOffset(ws, u, c) > Len(FirstPart(ws, u))

\* u.onboundary: the token index a word boundary at character offset c maps to
BoundaryIndex(ws, u, c) ==
    LET ref == IF u.rep THEN FirstPart(ws, u) ELSE TextMain(ws, u)
    IN u.start + CountSpaces(ref, FoldedOffset(ws, u, c))

\* Character offset of the first character of the k-th token (k from 0) of
\* the chunk within its joined text.
RECURSIVE TokenOffset(_, _, _)
TokenOffset(ws, u, k) ==
    IF k = 0 THEN 0
    ELSE TokenOffset(ws, u, k - 1) + Len(ws[u.start + k]) + 1

\* ------------------------------------------------------------------ inputs
T_ab == <<"a", "b">>
T_c == <<"c", ",">>
T_d == <<"d", ".">>
T_f == <<"f", "?", "\"">>
Base == <<T_ab, T_c, T_d, NL, T_f, NL>>
DocStarts == {1, 3}

\* The documents of a session: the windows of Base of 1..MaxTokens tokens.
Docs ==
    {SubSeq(Base, w[1], w[1] + w[2] - 1) :
        w \in {x \in DocStarts \X (1..MaxTokens) : x[1] + x[2] - 1 <= Len(Base)}}

Modes == {"scroll", "paginated", "spritz", "wheel", "tiktok"}
Delays == {0, LeadDelay}

\* The voice flags of a session: two complementary settings of the per-mode
\* switches, so that every mode has a voiced and a silent setting and no two
\* mode families share both.
VoiceFlags ==
    {[normalEnabled |-> TRUE, spritzEnabled |-> FALSE, wheelEnabled |-> TRUE,
      tiktokEnabled |-> FALSE],
     [normalEnabled |-> FALSE, spritzEnabled |-> TRUE, wheelEnabled |-> FALSE,
      tiktokEnabled |-> TRUE]}

VoiceSettingsSet ==
    {[normalEnabled |-> f.normalEnabled, spritzEnabled |-> f.spritzEnabled,
      wheelEnabled |-> f.wheelEnabled, tiktokEnabled |-> f.tiktokEnabled,
      repeatMode |-> rm] : f \in VoiceFlags, rm \in RepeatModes}

\* The app settings of a session.  The wheel's continuous mode is read in
\* wheel mode only, and the text lead time only where the visual index is
\* read (the wheel and the page turn); elsewhere they keep their defaults.
SettingsSet(m) ==
    [wheelContinuousMode : IF m = "wheel" THEN BOOLEAN ELSE {FALSE},
     audioTextDelay : IF m \in {"wheel", "paginated"} THEN Delays ELSE {0}]

\* The changes made during a session: the voice switches are flipped or the
\* voice is replaced; the repeat mode and the app settings are those the
\* session started with.
VoiceChanges(vs) == {v \in VoiceSettingsSet : v.repeatMode = vs.repeatMode}

VARIABLES
    words,          \* wordsRef.current, the token array of the open book
    mode,           \* the reading mode the session was opened in
    currentIndex,   \* React state currentIndex
    indexRef,       \* indexRef.current
    isPlaying,      \* React state isPlaying
    shouldPlay,     \* shouldPlayRef.current
    timer,          \* TRUE while the interval held by timerRef is live
    queue,          \* the utterances the speech engine holds, speaking first;
                    \* each is a member of activeUtterancesRef.current
    cancelled,      \* the number of members of activeUtterancesRef.current that
                    \* cancel() removed from the engine
    next,           \* chunkQueueNextIndex.current
    pending,        \* the setTimeout calls not fired yet, oldest first
    voiceSettings,  \* prop voiceSettings (voiceSettingsRef follows each render)
    settings,       \* prop settings (wheelContinuousMode, audioTextDelay)
    smooth2,        \* WheelDisplay smoothIndexRef.current, in half tokens
    navSpeak        \* the speakText closure held by the memoized seek handlers

vars == <<words, mode, currentIndex, indexRef, isPlaying, shouldPlay, timer,
          queue, cancelled, next, pending, voiceSettings, settings, smooth2, navSpeak>>

\* The persistent store (src/services/storage.ts): the four object stores of
\* the database, each a function from the keys it holds to their records.
VARIABLES
    books,          \* object store 'books', by id
    folders,        \* object store 'folders', by id
    glossary,       \* object store 'glossary', by word
    settingsStore,  \* object store 'settings': the slots 'app' and 'voice'
    backup,         \* the file exportBackup produced last: <<>> or <<file>>
    outcome         \* the last store operation and its promise as the caller
                    \* sees it: "resolved", "rejected" or "pending"

storeVars == <<books, folders, glossary, settingsStore, backup, outcome>>

Empty == << >>

\* The store of a reading session: the session writes the index of the open
\* book only, which the reading model does not keep.
StoreIdle ==
    /\ books = Empty
    /\ folders = Empty
    /\ glossary = Empty
    /\ settingsStore = Empty
    /\ backup = <<>>
    /\ outcome = [op |-> "none", promise |-> "none"]

\* The book record an import produces and the Reader reads
\* (src/services/parser.ts parseFile, Reader tokenization effect).
VARIABLES
    content,        \* book.content, the text of the imported file
    totalWords,     \* book.totalWords as parseFile stored it
    stage           \* "file": not imported; "saved": the book record exists;
                    \* "open": the Reader has tokenized it

bookVars == <<content, totalWords, stage>>

BookIdle == content = <<>> /\ totalWords = 0 /\ stage = "file"

\* The import of a structured document (src/services/parser.ts parseEpub)
\* and the upload that runs it (Library.tsx processFiles).
VARIABLES
    spine,          \* book.spine.items of the file being imported
    item,           \* the spine item the loop is at, from 1; past the last: done
    allTokens,      \* allTokens
    hrefToIndexMap, \* hrefToIndexMap: <<item, anchor>> to token position
    upload          \* processFiles: "idle", "parsing", "saving", "saved",
                    \* "alerted" (the error alert was shown) or "waiting"
                    \* (isUploading stays set, nothing was reported)

epubVars == <<spine, item, allTokens, hrefToIndexMap, upload>>

EpubIdle ==
    /\ spine = <<>>
    /\ item = 1
    /\ allTokens = <<>>
    /\ hrefToIndexMap = << >>
    /\ upload = "idle"

\* The end of a reading session (Reader.tsx unmount effects, App
\* handleProgressUpdate, storage.ts saveProgress).
VARIABLES
    mounted,        \* TRUE while the Reader component is mounted
    progress,       \* the position of the session's last call of
                    \* onUpdateProgress: <<>> or <<position>>
    closeWrites     \* the positions the unmount has passed to onUpdateProgress

closeVars == <<mounted, progress, closeWrites>>

\* The console of the page.
VARIABLES
    console         \* what the handler of the last step passed to
                    \* console.error: <<>> or <<error>>

\* The state of the App component outside the settings.
VARIABLES
    glossaryState,  \* React state glossary: key -> item
    unhighlighted,  \* the keys an un-highlight has deleted from the state and
                    \* from the store and the user has not highlighted since
    chapters        \* book.chapters of the open book (state books): the
                    \* table of contents, a sequence of Chapter records

appVars == <<glossaryState, unhighlighted, chapters>>

AppIdle == glossaryState = << >> /\ unhighlighted = {} /\ chapters = <<>>

CloseIdle == mounted = FALSE /\ progress = <<>> /\ closeWrites = <<>>

\* The debounced settings writes of the App (handleUpdateSettings,
\* handleUpdateVoiceSettings) and the clock they run against.
VARIABLES
    now,            \* the time, in ms
    chosen,         \* slot -> newSettings of the last call of the slot's
                    \* handler: <<>> or <<value>>
    timeouts,       \* slot -> the live timeouts of the slot, oldest first
    lastChange,     \* slot -> the time of the last call of the slot's handler
    burst,          \* slot -> the handler calls since the last saveSettings
                    \* call that preceded them
    sinceChange     \* slot -> the saveSettings calls since the last handler call

debounceVars == <<now, chosen, timeouts, lastChange, burst, sinceChange>>

\* The speech engine's delivery of boundary events around cancel().
VARIABLES
    lateBoundaries, \* TRUE: the engine still delivers the word-boundary events
                    \* it had queued for the utterance it was speaking when
                    \* cancel() was called; FALSE: cancel() drops them
    stale           \* the utterance those events belong to: <<>> or <<u>>

engineVars == <<lateBoundaries, stale>>

EngineIdle == lateBoundaries = FALSE /\ stale = <<>>

Slots == {"app", "voice"}

DebounceIdle ==
    /\ now = 0
    /\ chosen = [s \in Slots |-> <<>>]
    /\ timeouts = [s \in Slots |-> <<>>]
    /\ lastChange = [s \in Slots |-> 0]
    /\ burst = [s \in Slots |-> 0]
    /\ sinceChange = [s \in Slots |-> 0]

\* speakText / activeWpm: the voice flag of the active mode
IsVoiceEnabled(m, vs) ==
    IF m = "spritz" THEN vs.spritzEnabled
    ELSE IF m = "wheel" THEN vs.wheelEnabled
    ELSE IF m = "tiktok" THEN vs.tiktokEnabled
    ELSE vs.normalEnabled

\* activeWpm
ActiveWpm(m, vs) ==
    IF m \in {"spritz", "wheel", "tiktok"} THEN SpritzWpm
    ELSE IF IsVoiceEnabled(m, vs) THEN Max(1, RateFactor * VoiceRate)
    ELSE NormalWpm

\* visualIndex
VisualIndex(ws, m, ci, ip, st, vs) ==
    IF ~ip \/ st.audioTextDelay = 0 THEN ci
    ELSE Min(Len(ws) - 1, ci + (st.audioTextDelay * ActiveWpm(m, vs)) \div MsPerMinute)

Visual == VisualIndex(words, mode, currentIndex, isPlaying, settings, voiceSettings)

\* The closure a render hands to its handlers: speakText with the voice flag
\* and the wheel setting of that render.
SpeakClosure(m, vs, st) ==
    [voiced |-> IsVoiceEnabled(m, vs), cont |-> st.wheelContinuousMode]

\* ------------------------------------------------------- the speech queue
\* activeUtterancesRef.current.size
ActiveSize(q, c) == Len(q) + c

\* A variant of QueueFull that admits a third utterance; C7 fails under it.
QueueFullAtThree(size) == size >= 3

\* enqueueNextChunk (size guard)
QueueFull(size) == size >= 2

\* A variant of enqueueNextChunk that leaves the pointer on the last token of
\* the chunk it took; C30 fails under it.
RECURSIVE enqueueFromLastToken(_, _, _)
enqueueFromLastToken(ws, rm, q) ==
    IF ~q.should THEN q
    ELSE IF QueueFull(ActiveSize(q.queue, q.cancelled)) THEN q
    ELSE IF q.next >= Len(ws) THEN q
    ELSE LET chunk == NextChunk(ws, q.next, rm)
             last == Max(chunk.start + 1, chunk.end - 1)
         IN IF IsBlank(ChunkText(ws, chunk))
            THEN LET q1 == [q EXCEPT !.next = chunk.end]
                 IN IF chunk.end < Len(ws) THEN enqueueFromLastToken(ws, rm, q1) ELSE q1
            ELSE LET u == [start |-> chunk.start, end |-> chunk.end, rep |-> rm # "off"]
                 IN enqueueFromLastToken(ws, rm,
                        [q EXCEPT !.next = last, !.queue = Append(@, u)])

\* enqueueNextChunk on q = [should, queue, cancelled, next], with its
\* recursive calls: the skip of a blank chunk and the prefetch after speak().
RECURSIVE enqueueNextChunk(_, _, _)
enqueueNextChunk(ws, rm, q) ==
    IF ~q.should THEN q
    ELSE IF QueueFull(ActiveSize(q.queue, q.cancelled)) THEN q
    ELSE IF q.next >= Len(ws) THEN q
    ELSE LET chunk == NextChunk(ws, q.next, rm)
         IN IF IsBlank(ChunkText(ws, chunk))
            THEN LET q1 == [q EXCEPT !.next = chunk.end]
                 IN IF chunk.end < Len(ws) THEN enqueueNextChunk(ws, rm, q1) ELSE q1
            ELSE LET u == [start |-> chunk.start, end |-> chunk.end, rep |-> rm # "off"]
                 IN enqueueNextChunk(ws, rm,
                        [q EXCEPT !.next = chunk.end, !.queue = Append(@, u)])

\* A variant of StartsTimer without the wheel's early return; the amended
\* C10 fails under it.
StartsTimerInWheel(m, sc) == ~sc.voiced

\* speakText (silent branch): is the interval started
StartsTimer(m, sc) == ~sc.voiced /\ ~(m = "wheel" /\ sc.cont)

\* speakText(startIndex) run with the closure sc under repeat mode rm: the
\* values it leaves in shouldPlayRef, the engine queue, activeUtterancesRef,
\* chunkQueueNextIndex and timerRef.
speakText(ws, m, startIndex, sc, rm) ==
    LET q0 == [should |-> TRUE, queue |-> <<>>, cancelled |-> 0, next |-> startIndex]
        q2 == IF sc.voiced
              THEN enqueueNextChunk(ws, rm, enqueueNextChunk(ws, rm, q0))
              ELSE q0
    IN [should |-> q2.should, queue |-> q2.queue, cancelled |-> q2.cancelled,
        next |-> q2.next, timer |-> StartsTimer(m, sc)]

\* ------------------------------------------------------------ the render
\* WheelDisplay: the snap effect, run when one of its dependencies changed
SnapEffect(s2, vis, st, ip, depsChanged) ==
    IF depsChanged
       /\ (~st.wheelContinuousMode \/ ~ip \/ Abs(s2 - 2 * vis) > SnapThreshold2)
    THEN 2 * vis
    ELSE s2

\* The render that follows a handler and the effects of that render.
Render(ci, ip, vs, s2) ==
    LET vis == VisualIndex(words, mode, ci, ip, settings, vs)
        depsChanged == vis # Visual \/ ip # isPlaying
    IN /\ indexRef' = ci
       /\ smooth2' = IF mode = "wheel" THEN SnapEffect(s2, vis, settings, ip, depsChanged) ELSE s2
       /\ navSpeak' = IF ci # currentIndex \/ ip # isPlaying
                      THEN SpeakClosure(mode, vs, settings)
                      ELSE navSpeak

\* ----------------------------------------------------------- the timeouts
Kinds == {"auto", "seek", "voice"}
DelayOf(kind) == IF kind = "seek" THEN 10 ELSE IF kind = "voice" THEN 50 ELSE 500

\* A timeout fires once every timeout set before it with no longer a delay
\* has fired.
CanFire(i) ==
    /\ i \in 1..Len(pending)
    /\ \A j \in 1..(i - 1) : DelayOf(pending[j].kind) > DelayOf(pending[i].kind)

RemoveAt(seq, i) == SubSeq(seq, 1, i - 1) \o SubSeq(seq, i + 1, Len(seq))

Timeout(kind, idx, sc) == [kind |-> kind, idx |-> idx, sc |-> sc]

CanSchedule == Len(pending) < MaxPending

\* ------------------------------------------------------------------- Init
\* A session after the mount, whatever the engine
InitSession ==
    /\ words \in Docs
    /\ mode \in Modes
    /\ currentIndex \in 0..(Len(words) - 1)
    /\ indexRef = currentIndex
    /\ isPlaying = FALSE
    /\ shouldPlay = FALSE
    /\ timer = FALSE
    /\ cancelled = 0
    /\ queue = <<>>
    /\ next = 0
    /\ voiceSettings \in VoiceSettingsSet
    /\ settings \in SettingsSet(mode)
    /\ smooth2 = IF mode = "wheel" THEN 2 * currentIndex ELSE 0
    /\ navSpeak = SpeakClosure(mode, voiceSettings, settings)
    /\ pending = <<Timeout("auto", currentIndex, navSpeak)>>
    /\ mounted = TRUE
    /\ progress = <<>>
    /\ closeWrites = <<>>
    /\ console = <<>>
    /\ AppIdle
    /\ StoreIdle
    /\ BookIdle
    /\ EpubIdle
    /\ DebounceIdle

\* A session on an engine whose cancel() drops the events under way
Init == InitSession /\ EngineIdle

\* No book is open: the Reader is not mounted.
ReaderIdle ==
    /\ words = <<>>
    /\ mode = "scroll"
    /\ currentIndex = 0
    /\ indexRef = 0
    /\ isPlaying = FALSE
    /\ shouldPlay = FALSE
    /\ timer = FALSE
    /\ cancelled = 0
    /\ queue = <<>>
    /\ next = 0
    /\ voiceSettings = CHOOSE v \in VoiceSettingsSet : v.normalEnabled /\ v.repeatMode = "off"
    /\ settings = [wheelContinuousMode |-> FALSE, audioTextDelay |-> 0]
    /\ smooth2 = 0
    /\ navSpeak = SpeakClosure(mode, voiceSettings, settings)
    /\ pending = <<>>
    /\ CloseIdle
    /\ console = <<>>

\* ---------------------------------------------------------------- actions
\* What no handler of a session touches.
Outside ==
    UNCHANGED <<words, mode>> /\ UNCHANGED storeVars /\ UNCHANGED bookVars
    /\ UNCHANGED epubVars /\ UNCHANGED debounceVars /\ UNCHANGED appVars
    /\ UNCHANGED lateBoundaries

\* cancel() removes every utterance from the engine; the one it was speaking
\* has boundary events under way.  No handler changes the engine's queue
\* without calling cancel() first.
StaleAfter(q, q1) ==
    IF lateBoundaries /\ q # <<>> /\ q1 # q THEN <<Head(q)>> ELSE stale

\* A handler of the mounted component, or a callback of its timers.
Handler == mounted /\ UNCHANGED closeVars /\ Outside /\ stale' = StaleAfter(queue, queue')

\* A callback of an utterance the engine holds or owes a terminal event: the
\* engine delivers its events in order, those of the utterance cancelled
\* before have all arrived.
Callback == mounted /\ UNCHANGED closeVars /\ Outside /\ stale' = <<>>

\* The step writes nothing to the console.
Quiet == console' = <<>>

\* The handlers and callbacks that do not log.
Session == Handler /\ Quiet

\* What a call of speakText leaves behind.
Speak(r) ==
    /\ shouldPlay' = r.should
    /\ cancelled' = r.cancelled
    /\ queue' = r.queue
    /\ next' = r.next
    /\ timer' = r.timer

Fresh == SpeakClosure(mode, voiceSettings, settings)

\* togglePlay
TogglePlay ==
    /\ IF isPlaying
       THEN /\ shouldPlay' = FALSE
            /\ queue' = <<>>
            /\ timer' = FALSE
            /\ isPlaying' = FALSE
            /\ cancelled' = cancelled + Len(queue)
            /\ UNCHANGED next
       ELSE /\ isPlaying' = TRUE
            /\ Speak(speakText(words, mode, currentIndex, Fresh, voiceSettings.repeatMode))
    /\ Render(currentIndex, isPlaying', voiceSettings, smooth2)
    /\ UNCHANGED <<currentIndex, pending, voiceSettings, settings>>
    /\ Session

\* changePosition: the clamp
ClampIndex(ws, i) == Max(0, Min(Len(ws) - 1, i))

\* changePosition(delta)
ChangePosition(delta) ==
    LET newIndex == ClampIndex(words, currentIndex + delta)
    IN /\ currentIndex' = newIndex
       /\ IF isPlaying
          THEN Speak(speakText(words, mode, newIndex, Fresh, voiceSettings.repeatMode))
          ELSE UNCHANGED <<shouldPlay, queue, cancelled, next, timer>>
       /\ Render(newIndex, isPlaying, voiceSettings, smooth2)
       /\ UNCHANGED <<isPlaying, pending, voiceSettings, settings>>
       /\ Session

\* The seek shared by navigateBySentence and changePage: set the index and,
\* if playing, cancel speech and defer speakText by 10 ms.
DeferredSeek(newIndex, sc) ==
    /\ isPlaying => CanSchedule
    /\ currentIndex' = newIndex
    /\ IF isPlaying
       THEN /\ shouldPlay' = TRUE
            /\ queue' = <<>>
            /\ cancelled' = 0
            /\ next' = newIndex
            /\ pending' = Append(pending, Timeout("seek", newIndex, sc))
       ELSE UNCHANGED <<shouldPlay, queue, cancelled, next, pending>>
    /\ Render(newIndex, isPlaying, voiceSettings, smooth2)
    /\ UNCHANGED <<isPlaying, timer, voiceSettings, settings>>
    /\ Session

\* navigateBySentence: the target index
SentenceTarget(ws, ci, direction) ==
    LET range == getSentenceRange(ws, ci)
    IN IF direction = 1
       THEN Min(Len(ws) - 1, range.end + 1)
       ELSE IF ci > range.start + 2
       THEN range.start
       ELSE getSentenceRange(ws, Max(0, range.start - 2)).start

\* navigateBySentence(direction)
NavigateBySentence(direction) ==
    DeferredSeek(SentenceTarget(words, currentIndex, direction), navSpeak)

\* changePage, when the page turn finds a token to seek to
ChangePage(foundIndex) ==
    /\ mode = "paginated"
    /\ foundIndex # Visual
    /\ DeferredSeek(foundIndex, navSpeak)

\* handleWordClick (left button)
WordClick(index) ==
    /\ mode \in {"scroll", "paginated"}
    /\ ~IsNewline(words, index)
    /\ currentIndex' = index
    /\ isPlaying' = TRUE
    /\ Speak(speakText(words, mode, index, Fresh, voiceSettings.repeatMode))
    /\ Render(index, TRUE, voiceSettings, smooth2)
    /\ UNCHANGED <<pending, voiceSettings, settings>>
    /\ Session

\* The positions a chapter of the book can have: the importer records the
\* token count at the start of a section or element, the count after the
\* last token included.
ChapterPositions(ws) == 0..Len(ws)

\* renderTocItems onClick with auto-play on
TocJump(position) ==
    /\ CanSchedule
    /\ currentIndex' = position
    /\ isPlaying' = TRUE
    /\ shouldPlay' = TRUE
    /\ queue' = <<>>
    /\ cancelled' = 0
    /\ next' = position
    /\ pending' = Append(pending, Timeout("seek", position, Fresh))
    /\ Render(position, TRUE, voiceSettings, smooth2)
    /\ UNCHANGED <<timer, voiceSettings, settings>>
    /\ Session

\* A timeout fires: the auto-play of the mount effect, or a deferred
\* speakText of a seek or of the voice-settings effect.
FireTimeout(i) ==
    /\ CanFire(i)
    /\ LET p == pending[i]
       IN /\ pending' = RemoveAt(pending, i)
          /\ isPlaying' = IF p.kind = "auto" THEN TRUE ELSE isPlaying
          /\ Speak(speakText(words, mode, p.idx, p.sc, voiceSettings.repeatMode))
          /\ Render(currentIndex, isPlaying', voiceSettings, smooth2)
    /\ UNCHANGED <<currentIndex, voiceSettings, settings>>
    /\ Session

\* The voice settings change; the effect on them restarts a playing session.
VoiceSettingsChange(vs) ==
    /\ isPlaying => CanSchedule
    /\ voiceSettings' = vs
    /\ IF isPlaying
       THEN /\ shouldPlay' = FALSE
            /\ queue' = <<>>
            /\ timer' = FALSE
            /\ cancelled' = cancelled + Len(queue)
            /\ pending' = Append(pending,
                              Timeout("voice", currentIndex, SpeakClosure(mode, vs, settings)))
       ELSE UNCHANGED <<shouldPlay, queue, cancelled, timer, pending>>
    /\ Render(currentIndex, isPlaying, vs, smooth2)
    /\ UNCHANGED <<currentIndex, isPlaying, next, settings>>
    /\ Session

\* A variant of TickIndex that steps once more at the last token; C5 fails
\* under it.
TickIndexPastEnd(ws, prev) == IF prev >= Len(ws) THEN prev ELSE prev + 1

\* speakText: the updater of the interval callback
TickIndex(ws, prev) == IF prev >= Len(ws) - 1 THEN prev ELSE prev + 1

\* speakText: the interval callback
TimerTick ==
    /\ timer
    /\ IF ~shouldPlay
       THEN /\ timer' = FALSE
            /\ UNCHANGED <<currentIndex, isPlaying, shouldPlay>>
       ELSE /\ currentIndex' = TickIndex(words, currentIndex)
            /\ IF currentIndex >= Len(words) - 1
               THEN isPlaying' = FALSE /\ shouldPlay' = FALSE /\ timer' = FALSE
               ELSE UNCHANGED <<isPlaying, shouldPlay, timer>>
    /\ Render(currentIndex', isPlaying', voiceSettings, smooth2)
    /\ UNCHANGED <<queue, cancelled, next, pending, voiceSettings, settings>>
    /\ Session

\* ------------------------------------------------------- engine callbacks
\* The character offsets of the text the engine is speaking.
SpokenOffsets ==
    IF queue = <<>> THEN {} ELSE 0..(Len(FullText(words, Head(queue))) - 1)

\* u.onboundary for the utterance being spoken, at character offset c
UtteranceBoundary(c) ==
    /\ queue # <<>>
    /\ LET u == Head(queue)
       IN /\ c \in SpokenOffsets
          /\ currentIndex' =
                IF BoundaryIgnored(words, u, c) THEN currentIndex
                ELSE IF BoundaryIndex(words, u, c) # indexRef
                THEN BoundaryIndex(words, u, c)
                ELSE currentIndex
    /\ Render(currentIndex', isPlaying, voiceSettings, smooth2)
    /\ UNCHANGED <<isPlaying, shouldPlay, timer, queue, cancelled, next, pending,
                   voiceSettings, settings>>
    /\ Callback /\ Quiet

\* u.onend for a member of activeUtterancesRef.current, with eq and c the
\* engine queue and the cancelled members once u is deleted
OnEnd(eq, c) ==
    LET q == enqueueNextChunk(words, voiceSettings.repeatMode,
                 [should |-> shouldPlay, queue |-> eq, cancelled |-> c, next |-> next])
        finished == ActiveSize(q.queue, q.cancelled) = 0 /\ q.next >= Len(words)
    IN /\ queue' = q.queue
       /\ cancelled' = q.cancelled
       /\ next' = q.next
       /\ isPlaying' = IF finished THEN FALSE ELSE isPlaying
       /\ shouldPlay' = IF finished THEN FALSE ELSE shouldPlay

\* The engine finishes the utterance it is speaking.
UtteranceEnd ==
    /\ queue # <<>>
    /\ OnEnd(Tail(queue), cancelled)
    /\ Render(currentIndex, isPlaying', voiceSettings, smooth2)
    /\ UNCHANGED <<currentIndex, timer, pending, voiceSettings, settings>>
    /\ Callback /\ Quiet

\* event.error: the errors cancel() gives the utterances it removes, and
\* the errors of an utterance the engine fails.
CancelErrors == {"interrupted", "canceled"}
FailureErrors == {"synthesis-failed"}

\* A handler that logs every error
LogAll(error) == <<error>>

\* u.onerror: what it passes to console.error
Log(error) == IF error # "interrupted" /\ error # "canceled" THEN <<error>> ELSE <<>>

\* The engine fails the utterance it is speaking (an error other than
\* 'interrupted' and 'canceled'): u.onerror.
UtteranceError ==
    /\ queue # <<>>
    /\ queue' = Tail(queue)
    /\ \E error \in FailureErrors : console' = Log(error)
    /\ Render(currentIndex, isPlaying, voiceSettings, smooth2)
    /\ UNCHANGED <<currentIndex, isPlaying, shouldPlay, timer, cancelled, next, pending,
                   voiceSettings, settings>>
    /\ Callback

\* The engine owes a terminal event to each utterance cancel() removed.  It
\* arrives as an error ('interrupted' or 'canceled'): u.onerror.
CancelledError ==
    /\ cancelled > 0
    /\ cancelled' = cancelled - 1
    /\ \E error \in CancelErrors : console' = Log(error)
    /\ Render(currentIndex, isPlaying, voiceSettings, smooth2)
    /\ UNCHANGED <<currentIndex, isPlaying, shouldPlay, timer, queue, next, pending,
                   voiceSettings, settings>>
    /\ Callback

\* The terminal event of a cancelled utterance arrives as an end event.
CancelledEnd ==
    /\ cancelled > 0
    /\ OnEnd(queue, cancelled - 1)
    /\ Render(currentIndex, isPlaying', voiceSettings, smooth2)
    /\ UNCHANGED <<currentIndex, timer, pending, voiceSettings, settings>>
    /\ Callback /\ Quiet

\* --------------------------------------------------------------- the wheel
\* The animation loop runs its body.
WheelActive == mode = "wheel" /\ settings.wheelContinuousMode /\ isPlaying

\* WheelDisplay loop: the increments of one frame, in half tokens.  The base
\* speed is positive; the correction term is negative when the target lies
\* behind by no more than the snap threshold.
FrameIncrements(s2, target) ==
    {1} \cup (IF 2 * target - s2 < 0 /\ s2 - 2 * target <= SnapThreshold2 THEN {-1} ELSE {})

\* WheelDisplay loop (boundary checks): the position after the increment
FramePosition(ws, s2, inc) ==
    IF s2 + inc >= 2 * Len(ws) THEN 2 * (Len(ws) - 1)
    ELSE IF s2 + inc < 0 THEN 0
    ELSE s2 + inc

\* WheelDisplay loop: is onIndexChange called
FrameNotifies(ws, s2, inc) ==
    \/ s2 + inc >= 2 * Len(ws)
    \/ s2 + inc >= 0 /\ (s2 + inc) \div 2 # s2 \div 2

\* WheelDisplay loop: the argument of onIndexChange
FrameIndex(ws, s2, inc) ==
    IF s2 + inc >= 2 * Len(ws) THEN Len(ws) - 1 ELSE (s2 + inc) \div 2

\* One frame of the WheelDisplay animation loop, and handleWheelIndexChange.
WheelFrame(inc) ==
    /\ WheelActive
    /\ inc \in FrameIncrements(smooth2, Visual)
    /\ currentIndex' = IF FrameNotifies(words, smooth2, inc)
                       THEN FrameIndex(words, smooth2, inc)
                       ELSE currentIndex
    /\ Render(currentIndex', isPlaying, voiceSettings,
              FramePosition(words, smooth2, inc))
    /\ UNCHANGED <<isPlaying, shouldPlay, timer, queue, cancelled, next, pending,
                   voiceSettings, settings>>
    /\ Session

\* --------------------------------------------------------------------- Next
Next ==
    \/ TogglePlay
    \/ \E delta \in {-SeekDelta, SeekDelta} : ChangePosition(delta)
    \/ \E direction \in {-1, 1} : NavigateBySentence(direction)
    \/ \E i \in 0..(Len(words) - 1) : ChangePage(i)
    \/ \E i \in 0..(Len(words) - 1) : WordClick(i)
    \/ \E pos \in ChapterPositions(words) : TocJump(pos)
    \/ \E i \in 1..Len(pending) : FireTimeout(i)
    \/ \E vs \in VoiceChanges(voiceSettings) : VoiceSettingsChange(vs)
    \/ TimerTick
    \/ \E c \in SpokenOffsets : UtteranceBoundary(c)
    \/ UtteranceEnd
    \/ UtteranceError
    \/ CancelledError
    \/ CancelledEnd
    \/ \E inc \in {-1, 1} : WheelFrame(inc)

Spec == Init /\ [][Next]_vars

\* ------------------------------------------------------------------ claims
LastIndex == Len(words) - 1

\* The advance sources: each can write currentIndex while it is live.
TimerRuns == timer /\ shouldPlay
SpeechRuns == queue # <<>>
WheelRuns == WheelActive

\* The seeks that call speakText at once, and those that defer it by 10 ms.
ImmediateSeek ==
    \/ \E delta \in {-SeekDelta, SeekDelta} : ChangePosition(delta)
    \/ \E i \in 0..(Len(words) - 1) : WordClick(i)
DeferringSeek ==
    \/ \E direction \in {-1, 1} : NavigateBySentence(direction)
    \/ \E i \in 0..(Len(words) - 1) : ChangePage(i)
    \/ \E pos \in ChapterPositions(words) : TocJump(pos)

\* C1: after any sequence of playback operations the current index is a
\* token index of the document: 0 <= currentIndex <= totalTokens - 1.
C1_IndexInRange == currentIndex >= 0 /\ currentIndex <= LastIndex

\* C2: at every moment at most one advance source is live: the silent timer,
\* the speech queue and the wheel's continuous-mode integrator are never
\* active together.
C2_OneAdvanceSource ==
    /\ ~(TimerRuns /\ SpeechRuns)
    /\ ~(TimerRuns /\ WheelRuns)
    /\ ~(SpeechRuns /\ WheelRuns)

\* C3: a seek to n while playing leaves nothing that was started before it:
\* after a seek that restarts at once, any utterance in the engine belongs to
\* the restart at n; after a seek that defers the restart, the engine is
\* empty and no timer is live.
C3_SeekCancelsOldSources ==
    [][/\ (isPlaying /\ ImmediateSeek) =>
              \A i \in 1..Len(queue') : queue'[i].start >= currentIndex'
       /\ (isPlaying /\ DeferringSeek) => (queue' = <<>> /\ ~timer')]_vars

\* A pending deferred call of speakText (10 ms after a seek, 50 ms after a
\* voice-settings change) that starts an advance source when it fires.
RestartArmed ==
    \E i \in 1..Len(pending) :
        /\ pending[i].kind \in {"seek", "voice"}
        /\ LET r == speakText(words, mode, pending[i].idx, pending[i].sc,
                              voiceSettings.repeatMode)
           IN r.timer \/ r.queue # <<>>

\* C4: a pause puts the synchronizer in Stopped: timer cleared, speech
\* cancelled, index unchanged, and no deferred restart left that would run
\* an advance source again before the next play or seek request.
C4_PauseStops ==
    [][(isPlaying /\ TogglePlay) =>
          /\ ~isPlaying'
          /\ ~timer'
          /\ queue' = <<>>
          /\ currentIndex' = currentIndex
          /\ ~RestartArmed']_vars

\* C5: a tick of the silent timer advances the index by exactly one token
\* while it is below the last token; the tick that finds it at the last token
\* leaves it unchanged, clears the timer and clears the play flag.
C5_TickAdvancesByOne ==
    [][(shouldPlay /\ TimerTick) =>
          IF currentIndex < LastIndex
          THEN currentIndex' = currentIndex + 1 /\ timer' /\ isPlaying' = isPlaying
          ELSE currentIndex' = currentIndex /\ ~timer' /\ ~isPlaying']_vars

\* The silent timer has stopped the session at the last token.
C5_Witness ==
    /\ ~IsVoiceEnabled(mode, voiceSettings)
    /\ LastIndex > 0
    /\ currentIndex = LastIndex
    /\ ~isPlaying /\ ~shouldPlay /\ ~timer
    /\ queue = <<>> /\ cancelled = 0 /\ pending = <<>>

\* Voiced playback flagged as playing with no utterance in flight, nothing
\* left to enqueue and no deferred restart pending.
Stalled ==
    /\ isPlaying /\ shouldPlay
    /\ IsVoiceEnabled(mode, voiceSettings)
    /\ ~timer
    /\ queue = <<>> /\ cancelled = 0
    /\ next >= Len(words)
    /\ pending = <<>>

\* C6: as long as the engine ends the utterances it is given (no step is an
\* utterance error), voiced playback never comes to be flagged as playing
\* with no utterance in flight and nothing left to enqueue.
C6_NoVoicedStall ==
    [][(~Stalled /\ ~UtteranceError /\ ~CancelledError) => ~Stalled']_vars

\* C7: the set of in-flight utterances never holds more than two.
C7_AtMostTwoInFlight == ActiveSize(queue, cancelled) <= 2

\* Two utterances are in flight: one speaking, one prefetched.
C7_Witness == Len(queue) = 2 /\ ActiveSize(queue, cancelled) = 2 /\ isPlaying

\* C8: the visual index is a projection of the current index that is never
\* written back: while the visual index leads the current index, the wheel,
\* which is handed the visual index, does not write the current index.
C8_VisualNotWrittenBack ==
    [][((\E inc \in {-1, 1} : WheelFrame(inc)) /\ currentIndex' # currentIndex)
          => Visual = currentIndex]_vars

\* C9: a word boundary at the first character of the k-th token of the chunk
\* being spoken maps to start + k, in the first and in the repeated half, and
\* is not ignored; an offset in the repeated half maps to the token of the
\* corresponding offset of the first half; and the boundary event sets the
\* index to the token its offset maps to.
C9_BoundaryMapsToToken ==
    /\ [](\A i \in 1..Len(queue) :
            LET u == queue[i]
                split == SplitPoint(words, u)
            IN /\ \A k \in 0..(u.end - u.start - 1) :
                      \A c \in {TokenOffset(words, u, k)} \cup
                               (IF u.rep THEN {split + TokenOffset(words, u, k)} ELSE {}) :
                          /\ ~BoundaryIgnored(words, u, c)
                          /\ BoundaryIndex(words, u, c) = u.start + k
               /\ u.rep => \A j \in 0..(Len(FirstPart(words, u)) - 1) :
                      /\ ~BoundaryIgnored(words, u, split + j)
                      /\ BoundaryIndex(words, u, split + j) =
                             u.start + CountSpaces(FirstPart(words, u), j))
    /\ [][\A c \in SpokenOffsets : UtteranceBoundary(c) =>
             LET u == Head(queue)
                 split == SplitPoint(words, u)
             IN \A k \in 0..(u.end - u.start - 1) :
                    (\/ c = TokenOffset(words, u, k)
                     \/ u.rep /\ c = split + TokenOffset(words, u, k))
                    => currentIndex' = u.start + k]_vars

\* The engine speaks a repeated chunk of two tokens or more and a boundary
\* event has moved the index to a later token of it.
C9_Witness ==
    /\ mode # "wheel"
    /\ queue # <<>>
    /\ Head(queue).rep
    /\ Head(queue).end - Head(queue).start >= 2
    /\ currentIndex > Head(queue).start
    /\ currentIndex < Head(queue).end

\* A play request from Stopped has started the speech queue: an utterance is
\* in the engine, or nothing speakable was left from the index on.
VoicedStarted == ~timer /\ (queue # <<>> \/ next >= Len(words))

MaxFolders == 3
MaxBooks == 2

\* --------------------------------------------------------------- records
Null == "null"
Undefined == "undefined"

FolderNames == <<"F1", "F2", "F3", "F4">>
BookNames == <<"B1", "B2", "B3">>
FolderIds == {FolderNames[i] : i \in 1..MaxFolders}
BookIds == {BookNames[i] : i \in 1..MaxBooks}

\* handleCreateFolder: the record of a new folder
NewFolder(id, parentId) == [id |-> id, name |-> id, parentId |-> parentId]

\* parseFile: the record of an imported file; a text file has no cover
NewBook(id, parentId) ==
    [id |-> id, title |-> id, parentId |-> parentId,
     cover |-> IF id = BookNames[1] THEN Undefined ELSE "data:image"]

\* store.add(value): a record whose key exists is kept
Add(store, key, value) ==
    [k \in DOMAIN store \cup {key} |-> IF k \in DOMAIN store THEN store[k] ELSE value]

\* store.put(value) on a store with a key path
Put(store, key, value) ==
    [k \in DOMAIN store \cup {key} |-> IF k = key THEN value ELSE store[k]]

\* store.delete(key)
Delete(store, keys) == [k \in DOMAIN store \ keys |-> store[k]]

\* ----------------------------------------------------------- transactions
\* How a readwrite transaction ends.  "complete": every request succeeded and
\* the commit was written (tx.oncomplete).  "error": a request failed; the
\* error event reached the transaction (tx.onerror) and the transaction was
\* rolled back.  "abort": the commit itself failed (quota, disk); the database
\* rolls the transaction back and fires only the abort event.
Fates == {"complete", "error", "abort"}

\* The promise of an operation whose executor listens to tx.oncomplete and
\* tx.onerror only.
Settled(fate) ==
    IF fate = "complete" THEN "resolved"
    ELSE IF fate = "error" THEN "rejected"
    ELSE "pending"

\* ------------------------------------------------------------- operations
\* moveItems: what its requests write
moveItems(bs, fs, bookIds, folderIds, targetParentId) ==
    [books |->
        [id \in DOMAIN bs |->
            IF id \in bookIds THEN [bs[id] EXCEPT !.parentId = targetParentId]
            ELSE bs[id]],
     folders |->
        [id \in DOMAIN fs |->
            IF id \in folderIds /\ id # targetParentId
            THEN [fs[id] EXCEPT !.parentId = targetParentId]
            ELSE fs[id]]]

\* deleteItems: what its requests write
deleteItems(bs, fs, bookIds, folderIds) ==
    [books |-> Delete(bs, bookIds), folders |-> Delete(fs, folderIds)]

\* A transaction over books and folders that ends as fate says.
Transact(op, fate, written) ==
    /\ books' = IF fate = "complete" THEN written.books ELSE books
    /\ folders' = IF fate = "complete" THEN written.folders ELSE folders
    /\ outcome' = [op |-> op, promise |-> Settled(fate)]

LibraryFrame ==
    /\ UNCHANGED vars
    /\ UNCHANGED closeVars
    /\ UNCHANGED console
    /\ UNCHANGED appVars
    /\ UNCHANGED engineVars
    /\ UNCHANGED bookVars
    /\ UNCHANGED epubVars
    /\ UNCHANGED debounceVars

\* The folders a move can name as its target: Home, or a folder of the list
\* (moveTargetFolderId keeps the folder chosen in an earlier move).
Targets == {Null} \cup DOMAIN folders

\* handleCreateFolder -> saveFolder
CreateFolder(id, parentId) ==
    /\ id \notin DOMAIN folders
    /\ \E fate \in Fates :
          Transact("saveFolder", fate,
                   [books |-> books,
                    folders |-> Put(folders, id, NewFolder(id, parentId))])
    /\ UNCHANGED <<glossary, settingsStore, backup>>
    /\ LibraryFrame

\* processFiles -> saveBook
SaveBook(id, parentId) ==
    /\ id \notin DOMAIN books
    /\ \E fate \in Fates :
          Transact("saveBook", fate,
                   [books |-> Put(books, id, NewBook(id, parentId)),
                    folders |-> folders])
    /\ UNCHANGED <<glossary, settingsStore, backup>>
    /\ LibraryFrame

\* handleBatchMove / handleDrop -> moveItems
MoveItems(bookIds, folderIds, targetParentId) ==
    /\ \E fate \in Fates :
          Transact("moveItems", fate,
                   moveItems(books, folders, bookIds, folderIds, targetParentId))
    /\ UNCHANGED <<glossary, settingsStore, backup>>
    /\ LibraryFrame

\* handleBatchDelete -> deleteItems
DeleteItems(bookIds, folderIds) ==
    /\ \E fate \in Fates :
          Transact("deleteItems", fate,
                   deleteItems(books, folders, bookIds, folderIds))
    /\ UNCHANGED <<glossary, settingsStore, backup>>
    /\ LibraryFrame

InitStore == ReaderIdle /\ StoreIdle /\ BookIdle /\ EpubIdle /\ DebounceIdle /\ AppIdle
    /\ EngineIdle

NextStore ==
    \/ \E id \in FolderIds : \E p \in Targets : CreateFolder(id, p)
    \/ \E id \in BookIds : \E p \in Targets : SaveBook(id, p)
    \/ \E bookIds \in SUBSET BookIds : \E folderIds \in SUBSET FolderIds :
          \E t \in Targets : MoveItems(bookIds, folderIds, t)
    \/ \E bookIds \in SUBSET BookIds : \E folderIds \in SUBSET FolderIds :
          DeleteItems(bookIds, folderIds)

SpecStore == InitStore /\ [][NextStore]_storeVars

\* ----------------------------------------------------------------- claims
\* The folders above f: its parent, the parent's parent, and so on.
RECURSIVE Above(_, _, _)
Above(fs, f, n) ==
    IF n = 0 \/ f \notin DOMAIN fs \/ fs[f].parentId = Null THEN {}
    ELSE {fs[f].parentId} \cup Above(fs, fs[f].parentId, n - 1)

Ancestors(fs, f) == Above(fs, f, Cardinality(DOMAIN fs))

\* C11: after any sequence of moves no folder is its own ancestor.
C11_NoFolderCycle == \A f \in DOMAIN folders : f \notin Ancestors(folders, f)

Listed(bookIds, folderIds) ==
    (bookIds \cap DOMAIN books) \cup (folderIds \cap DOMAIN folders)

AllReparented(bookIds, folderIds, t) ==
    /\ outcome'.promise = "resolved"
    /\ \A id \in bookIds \cap DOMAIN books :
          id \in DOMAIN books' /\ books'[id].parentId = t
    /\ \A id \in folderIds \cap DOMAIN folders :
          id \in DOMAIN folders' /\ folders'[id].parentId = t

AllRemoved(bookIds, folderIds) ==
    /\ outcome'.promise = "resolved"
    /\ DOMAIN books' \cap bookIds = {}
    /\ DOMAIN folders' \cap folderIds = {}

FailedUnchanged ==
    outcome'.promise = "rejected" /\ books' = books /\ folders' = folders

\* C12: moveItems and deleteItems either act on every listed existing record
\* or report failure to the caller and change nothing.
C12_AllOrNothing ==
    [][/\ \A bookIds \in SUBSET BookIds : \A folderIds \in SUBSET FolderIds :
            \A t \in Targets :
               MoveItems(bookIds, folderIds, t) =>
                  AllReparented(bookIds, folderIds, t) \/ FailedUnchanged
       /\ \A bookIds \in SUBSET BookIds : \A folderIds \in SUBSET FolderIds :
            DeleteItems(bookIds, folderIds) =>
               AllRemoved(bookIds, folderIds) \/ FailedUnchanged]_storeVars

\* The selected folders that exist
Doomed(folderIds) == folderIds \cap DOMAIN folders

\* A record with this parentId lies inside one of the folders of ds, directly
\* or through nested folders.
Inside(parentId, ds) ==
    parentId \in ds \/ Ancestors(folders, parentId) \cap ds # {}

\* C27: after a delete that was confirmed and has resolved, no book and no
\* folder that was inside a deleted folder, directly or through nested
\* folders, is in the store.
C27_FolderDeleteTakesContents ==
    [][\A bookIds \in SUBSET BookIds : \A folderIds \in SUBSET FolderIds :
          (DeleteItems(bookIds, folderIds) /\ outcome'.promise = "resolved") =>
             /\ \A b \in DOMAIN books' :
                   ~Inside(books[b].parentId, Doomed(folderIds))
             /\ \A f \in DOMAIN folders' :
                   ~Inside(folders[f].parentId, Doomed(folderIds))]_storeVars

\* ======================================================= backup and restore
\* ------------------------------------------------------ program constants
BackupVersion == 1

\* ------------------------------------------------------------------ JSON
\* JSON.parse(JSON.stringify(object)): a property whose value is undefined is
\* not written, every other property comes back with its value.
StringifyDropsNull(r) ==
    [k \in {f \in DOMAIN r : r[f] \notin {Undefined, Null}} |-> r[k]]

Stringify(r) == [k \in {f \in DOMAIN r : r[f] # Undefined} |-> r[k]]

\* The reading of a property: undefined when the object has no such property.
Field(r, k) == IF k \in DOMAIN r THEN r[k] ELSE Undefined

\* store.getAll(): the records of a store in key order
GetAll(store, names) ==
    LET present == SelectSeq(names, LAMBDA n : n \in DOMAIN store)
    IN [i \in 1..Len(present) |-> store[present[i]]]

StringifyAll(arr) == [i \in 1..Len(arr) |-> Stringify(arr[i])]

\* ------------------------------------------------------------- the records
Words == <<"w1">>
GlossaryItem(word, definition) ==
    [word |-> word, definition |-> definition,
     translation |-> IF definition = "d1" THEN Undefined ELSE "t"]

\* ------------------------------------------------------------- exportBackup
exportBackup(bs, fs, gs, ss) ==
    [json |-> TRUE,
     version |-> <<BackupVersion>>,
     books |-> StringifyAll(GetAll(bs, BookNames)),
     folders |-> StringifyAll(GetAll(fs, FolderNames)),
     glossary |-> StringifyAll(GetAll(gs, Words)),
     settings |-> Stringify([app |-> Field(ss, "app"), voice |-> Field(ss, "voice")])]

\* ------------------------------------------------------------- importBackup
\* !data.version: the tag is missing or falsy
NoVersion(file) == file.version = <<>> \/ file.version[1] = 0

\* importBackup throws before it opens a transaction
Throws(file) == ~file.json \/ NoVersion(file)

\* data.<collection>.forEach(r => store.put(r)), the key read at keyPath
RECURSIVE PutAll(_, _, _)
PutAll(store, arr, keyPath) ==
    IF arr = <<>> THEN store
    ELSE PutAll(Put(store, Head(arr)[keyPath], Head(arr)), Tail(arr), keyPath)

\* if (data.settings.<slot>) store.put(data.settings.<slot>, '<slot>')
PutSlot(store, fileSettings, slot) ==
    IF slot \in DOMAIN fileSettings THEN Put(store, slot, fileSettings[slot])
    ELSE store

\* What the requests of importBackup write
importBackup(bs, fs, gs, ss, file) ==
    [books |-> PutAll(bs, file.books, "id"),
     folders |-> PutAll(fs, file.folders, "id"),
     glossary |-> PutAll(gs, file.glossary, "word"),
     settings |-> PutSlot(PutSlot(ss, file.settings, "app"), file.settings, "voice")]

\* ------------------------------------------------------------- the files
\* Files a user can pick in the restore dialog besides the last export:
\* a snapshot of another library, with each version tag, and a file that is
\* no JSON.
OtherSnapshot(version) ==
    [json |-> TRUE,
     version |-> version,
     books |-> <<Stringify(NewBook(BookNames[1], FolderNames[1]))>>,
     folders |-> << >>,
     glossary |-> <<Stringify(GlossaryItem(Words[1], "d2"))>>,
     settings |-> [app |-> "s2"]]

NotJson ==
    [json |-> FALSE, version |-> << >>, books |-> << >>, folders |-> << >>,
     glossary |-> << >>, settings |-> Empty]

VersionTags == {<< >>, <<0>>, <<BackupVersion>>, <<BackupVersion + 1>>}

ForeignFiles == {OtherSnapshot(v) : v \in VersionTags} \cup {NotJson}

Files == ForeignFiles \cup {backup[i] : i \in 1..Len(backup)}

\* --------------------------------------------------------------- actions
\* SettingsPanel handleBackup -> exportBackup: the reads succeed or one fails
ExportBackup ==
    /\ \E ok \in BOOLEAN :
          /\ backup' = IF ok THEN <<exportBackup(books, folders, glossary, settingsStore)>>
                        ELSE backup
          /\ outcome' = [op |-> "exportBackup",
                         promise |-> IF ok THEN "resolved" ELSE "rejected"]
    /\ UNCHANGED <<books, folders, glossary, settingsStore>>
    /\ LibraryFrame

\* SettingsPanel handleRestore -> importBackup
ImportBackup(file) ==
    /\ IF Throws(file)
       THEN /\ outcome' = [op |-> "importBackup", promise |-> "rejected"]
            /\ UNCHANGED <<books, folders, glossary, settingsStore>>
       ELSE \E fate \in Fates :
              LET written == importBackup(books, folders, glossary, settingsStore, file)
              IN /\ books' = IF fate = "complete" THEN written.books ELSE books
                 /\ folders' = IF fate = "complete" THEN written.folders ELSE folders
                 /\ glossary' = IF fate = "complete" THEN written.glossary ELSE glossary
                 /\ settingsStore' = IF fate = "complete" THEN written.settings
                                      ELSE settingsStore
                 /\ outcome' = [op |-> "importBackup", promise |-> Settled(fate)]
    /\ UNCHANGED backup
    /\ LibraryFrame

\* What the glossary handlers of the App leave alone.
GlossaryFrame ==
    /\ UNCHANGED vars
    /\ UNCHANGED closeVars
    /\ UNCHANGED console
    /\ UNCHANGED bookVars
    /\ UNCHANGED epubVars
    /\ UNCHANGED debounceVars
    /\ UNCHANGED chapters
    /\ UNCHANGED engineVars

\* handleGlossaryUpdate(word, 'remove'): the state loses the key, then
\* deleteGlossaryItem
DeleteGlossaryItem(word) ==
    /\ glossaryState' = Delete(glossaryState, {word})
    /\ \E fate \in Fates :
          /\ glossary' = IF fate = "complete" THEN Delete(glossary, {word}) ELSE glossary
          /\ unhighlighted' = IF fate = "complete" THEN unhighlighted \cup {word}
                               ELSE unhighlighted
          /\ outcome' = [op |-> "deleteGlossaryItem", promise |-> Settled(fate)]
    /\ UNCHANGED <<books, folders, settingsStore, backup>>
    /\ GlossaryFrame

\* handleGlossaryUpdate(item, 'add'): the state gets the item, then
\* saveGlossaryItem
SaveGlossaryItem(glossaryItem) ==
    /\ glossaryState' = Put(glossaryState, glossaryItem.word, glossaryItem)
    /\ unhighlighted' = unhighlighted \ {glossaryItem.word}
    /\ \E fate \in Fates :
          /\ glossary' = IF fate = "complete"
                          THEN Put(glossary, glossaryItem.word, glossaryItem)
                          ELSE glossary
          /\ outcome' = [op |-> "saveGlossaryItem", promise |-> Settled(fate)]
    /\ UNCHANGED <<books, folders, settingsStore, backup>>
    /\ GlossaryFrame

\* A library in use: a text book at Home, a book with a cover in a folder, a
\* glossary entry, and the settings saved or never changed.
InitBackup ==
    /\ ReaderIdle
    /\ BookIdle
    /\ EpubIdle
    /\ DebounceIdle
    /\ EngineIdle
    /\ folders = Put(Empty, FolderNames[1], NewFolder(FolderNames[1], Null))
    /\ books = Put(Put(Empty, BookNames[1], NewBook(BookNames[1], Null)),
                   BookNames[2], NewBook(BookNames[2], FolderNames[1]))
    /\ glossary = Put(Empty, Words[1], GlossaryItem(Words[1], "d1"))
    /\ glossaryState = glossary
    /\ unhighlighted = {}
    /\ chapters = <<>>
    /\ settingsStore \in {Empty, [app |-> "s1", voice |-> "v1"]}
    /\ backup = <<>>
    /\ outcome = [op |-> "none", promise |-> "none"]

NextBackup ==
    \/ ExportBackup
    \/ \E file \in Files : ImportBackup(file)
    \/ \E id \in BookIds : DeleteItems({id}, {})
    \/ \E id \in FolderIds : DeleteItems({}, {id})
    \/ \E word \in Range(Words) : DeleteGlossaryItem(word)

SpecBackup == InitBackup /\ [][NextBackup]_storeVars

\* ----------------------------------------------------------------- claims
\* Two stores hold the same records: the same keys, and under each key the
\* same value of every field.
SameRecords(a, b) ==
    /\ DOMAIN a = DOMAIN b
    /\ \A id \in DOMAIN a :
          \A k \in DOMAIN a[id] \cup DOMAIN b[id] : Field(a[id], k) = Field(b[id], k)

Restored(file) == importBackup(Empty, Empty, Empty, Empty, file)

\* C13: the file an export writes, imported into an empty store, is accepted
\* and yields the documents, folders and glossary entries of the exporting
\* store, equal by key and by every field value.
C13_BackupRoundTrip ==
    [][(ExportBackup /\ outcome'.promise = "resolved") =>
          /\ ~Throws(backup'[1])
          /\ SameRecords(Restored(backup'[1]).books, books)
          /\ SameRecords(Restored(backup'[1]).folders, folders)
          /\ SameRecords(Restored(backup'[1]).glossary, glossary)]_storeVars

\* An export of the full library was restored after everything was deleted:
\* the text book is back without a cover property.
C13_Witness ==
    /\ outcome = [op |-> "importBackup", promise |-> "resolved"]
    /\ backup # <<>>
    /\ Len(backup[1].books) = 2 /\ Len(backup[1].folders) = 1
    /\ Len(backup[1].glossary) = 1
    /\ SameRecords(books, Restored(backup[1]).books)
    /\ "cover" \notin DOMAIN books[BookNames[1]]
    /\ books[BookNames[1]].parentId = Null
    /\ SameRecords(folders, Restored(backup[1]).folders)
    /\ SameRecords(glossary, Restored(backup[1]).glossary)
    /\ "translation" \notin DOMAIN glossary[Words[1]]

Keys(arr, keyPath) == {arr[i][keyPath] : i \in 1..Len(arr)}

\* The records under keys that the snapshot does not name are as they were,
\* and no key is added besides the snapshot's.
Kept(store, after, keys) ==
    /\ \A k \in DOMAIN store \ keys : k \in DOMAIN after /\ after[k] = store[k]
    /\ DOMAIN after \subseteq DOMAIN store \cup keys

\* Every record of the snapshot is the record under its key.
Overwritten(after, arr, keyPath) ==
    \A i \in 1..Len(arr) :
       arr[i][keyPath] \in DOMAIN after /\ after[arr[i][keyPath]] = arr[i]

\* C14: an import leaves every record whose key the snapshot does not name
\* as it was, deletes nothing, and, when it succeeds, has put the snapshot's
\* record under every key the snapshot names, in all four collections.
C14_ImportOverwritesAndKeeps ==
    [][\A file \in Files : ImportBackup(file) =>
          /\ Kept(books, books', Keys(file.books, "id"))
          /\ Kept(folders, folders', Keys(file.folders, "id"))
          /\ Kept(glossary, glossary', Keys(file.glossary, "word"))
          /\ Kept(settingsStore, settingsStore', DOMAIN file.settings)
          /\ outcome'.promise = "resolved" =>
                /\ Overwritten(books', file.books, "id")
                /\ Overwritten(folders', file.folders, "id")
                /\ Overwritten(glossary', file.glossary, "word")
                /\ \A slot \in DOMAIN file.settings :
                      slot \in DOMAIN settingsStore'
                      /\ settingsStore'[slot] = file.settings[slot]]_storeVars

\* The snapshot of the other library was imported into the full library: the
\* text book, the glossary entry and the app settings are the snapshot's, the
\* second book, the folder and the voice settings are as they were.
C14_Witness ==
    /\ outcome = [op |-> "importBackup", promise |-> "resolved"]
    /\ BookNames[1] \in DOMAIN books /\ books[BookNames[1]].parentId = FolderNames[1]
    /\ BookNames[2] \in DOMAIN books /\ books[BookNames[2]].cover # Undefined
    /\ FolderNames[1] \in DOMAIN folders
    /\ Words[1] \in DOMAIN glossary /\ glossary[Words[1]].definition = "d2"
    /\ settingsStore = [app |-> "s2", voice |-> "v1"]

\* C15: an import of a file whose version tag is missing or is not the
\* supported version is rejected and changes none of the four collections.
C15_VersionValidated ==
    [][\A file \in Files :
          (ImportBackup(file) /\ file.version # <<BackupVersion>>) =>
             /\ outcome'.promise = "rejected"
             /\ UNCHANGED <<books, folders, glossary, settingsStore>>]_storeVars

\* ============================================================= tokenization
\* ---------------------------------------------------------------- bounds
MaxChars == 5

\* The characters of a text: a letter, a space, a line break and a tab.
Chars == {"a", " ", "\n", "\t"}

\* U+00A0, the no-break space of &nbsp;: one character, white space for
\* String.prototype.trim and no match of /[ ]/ or /[\n\r\t]/.
NBSP == "nbsp"
TrimSet == {" ", "\n", "\t", NBSP}

RECURSIVE TextsOf(_)
TextsOf(n) ==
    IF n = 0 THEN {<<>>}
    ELSE TextsOf(n - 1) \cup {Append(t, c) : t \in {x \in TextsOf(n - 1) : Len(x) = n - 1},
                                            c \in Chars}

Texts == TextsOf(MaxChars)

\* The position of the first character of text that is in set, or 0
FirstIn(text, set) ==
    IF \E i \in 1..Len(text) : text[i] \in set
    THEN CHOOSE i \in 1..Len(text) :
            text[i] \in set /\ \A j \in 1..(i - 1) : text[j] \notin set
    ELSE 0

\* text.split(/(\n)/): the pieces between line breaks, each line break a
\* piece of its own
RECURSIVE SplitLines(_)
SplitLines(text) ==
    LET i == FirstIn(text, {"\n"})
    IN IF i = 0 THEN <<text>>
       ELSE <<SubSeq(text, 1, i - 1), NL>> \o SplitLines(SubSeq(text, i + 1, Len(text)))

\* seg.trim()
RECURSIVE Trim(_)
Trim(seg) ==
    IF seg # <<>> /\ Head(seg) \in TrimSet THEN Trim(Tail(seg))
    ELSE IF seg # <<>> /\ seg[Len(seg)] \in TrimSet THEN Trim(SubSeq(seg, 1, Len(seg) - 1))
    ELSE seg

\* seg.split(/[ ]+/)
RECURSIVE SplitSpaces(_)
SplitSpaces(seg) ==
    LET i == FirstIn(seg, {" "})
        rest == SubSeq(seg, i + 1, Len(seg))
        j == FirstIn(rest, (Chars \cup {NBSP}) \ {" "})
    IN IF i = 0 THEN <<seg>>
       ELSE <<SubSeq(seg, 1, i - 1)>>
            \o SplitSpaces(IF j = 0 THEN <<>> ELSE SubSeq(rest, j, Len(rest)))

\* A count that leaves the line breaks out
countWords(text) ==
    LET segs == SplitLines(text)
        RECURSIVE Sum(_)
        Sum(i) ==
            IF i > Len(segs) THEN 0
            ELSE (IF segs[i] = NL THEN 0
                  ELSE Cardinality({k \in DOMAIN SplitSpaces(Trim(segs[i])) :
                                      Len(SplitSpaces(Trim(segs[i]))[k]) > 0}))
                 + Sum(i + 1)
    IN Sum(1)

\* countTokens (parser.ts)
countTokens(text) ==
    LET segs == SplitLines(text)
        RECURSIVE Sum(_)
        Sum(i) ==
            IF i > Len(segs) THEN 0
            ELSE (IF segs[i] = NL THEN 1
                  ELSE Cardinality({k \in DOMAIN SplitSpaces(Trim(segs[i])) :
                                      Len(SplitSpaces(Trim(segs[i]))[k]) > 0}))
                 + Sum(i + 1)
    IN Sum(1)

\* The Reader's tokenization effect: the token array built from book.content
Tokenize(text) ==
    LET segs == SplitLines(text)
        RECURSIVE Push(_)
        Push(i) ==
            IF i > Len(segs) THEN <<>>
            ELSE (IF segs[i] = NL THEN <<NL>>
                  ELSE SelectSeq(SplitSpaces(Trim(segs[i])), LAMBDA w : Len(w) > 0))
                 \o Push(i + 1)
    IN Push(1)

TokensFrame == UNCHANGED <<mode, currentIndex, indexRef, isPlaying, shouldPlay, timer,
                           queue, cancelled, next, pending, voiceSettings, settings,
                           smooth2, navSpeak>>
               /\ UNCHANGED closeVars /\ UNCHANGED storeVars /\ UNCHANGED epubVars
               /\ UNCHANGED console /\ UNCHANGED appVars
               /\ UNCHANGED engineVars
               /\ UNCHANGED debounceVars

\* parseFile: the book record of the file
ParseFile ==
    /\ stage = "file"
    /\ totalWords' = countTokens(content)
    /\ stage' = "saved"
    /\ UNCHANGED <<content, words>>
    /\ TokensFrame

\* The Reader is mounted on the book, or mounted again: the tokenization effect
OpenBook ==
    /\ stage \in {"saved", "closed"}
    /\ words' = Tokenize(content)
    /\ stage' = "open"
    /\ UNCHANGED <<content, totalWords>>
    /\ TokensFrame

\* The Reader is closed; the book record stays
CloseBook ==
    /\ stage = "open"
    /\ stage' = "closed"
    /\ UNCHANGED <<content, totalWords, words>>
    /\ TokensFrame

InitTokens ==
    /\ ReaderIdle
    /\ AppIdle
    /\ StoreIdle
    /\ EpubIdle
    /\ DebounceIdle
    /\ EngineIdle
    /\ content \in Texts
    /\ totalWords = 0
    /\ stage = "file"

NextTokens == ParseFile \/ OpenBook \/ CloseBook

tokenVars == <<content, totalWords, stage, words>>

SpecTokens == InitTokens /\ [][NextTokens]_tokenVars

\* ----------------------------------------------------------------- claims
\* C16: the count the importer stored equals the length of the token array
\* the Reader builds from the same text, and a reload builds the same array.
C16_CountMatchesReader ==
    /\ [](stage \in {"open", "closed"} => totalWords = Len(words))
    /\ [][(OpenBook /\ stage = "closed") => words' = words]_tokenVars

\* A text with a word, a line break, a run of spaces and a tab is open.
C16_Witness ==
    /\ stage = "open"
    /\ Len(content) = MaxChars
    /\ totalWords = 2
    /\ NL \in Range(words)
    /\ \E i \in 1..Len(content) : content[i] = "\t"
    /\ \E i \in 1..(Len(content) - 1) : content[i] = " " /\ content[i + 1] = " "

\* ==================================================== structured documents
\* ---------------------------------------------------------------- bounds
MaxSections == 3

\* ------------------------------------------------------------- the sections
\* A token of section sec at local offset at; nl: a break token.  The break
\* the loop inserts between two sections belongs to no section.
Tok(sec, at, nl) == [sec |-> sec, at |-> at, nl |-> nl]
Separator == [sec |-> 0, at |-> "none", nl |-> TRUE]

\* What extractTokensAndAnchors yields for the bodies of the bound:
\*   "block"   <p id=a>w</p>          a word and the break of the block
\*   "inline"  <span id=a>w</span> <b id=b>w</b>   two words, no break
\*   "break"   <br/><span id=a>w</span>            a break, then a word
\*   "image"   <img id=a/>            no token
Bodies == {"block", "inline", "break", "image"}

ChunkTokens(sec, body) ==
    IF body = "block" THEN <<Tok(sec, "0", FALSE), Tok(sec, "1", TRUE)>>
    ELSE IF body = "inline" THEN <<Tok(sec, "0", FALSE), Tok(sec, "1", FALSE)>>
    ELSE IF body = "break" THEN <<Tok(sec, "0", TRUE), Tok(sec, "1", FALSE)>>
    ELSE << >>

\* anchors[el.id] = currentTokens.length, as the walk enters the element
Anchors(body) ==
    IF body = "block" THEN [a |-> 0]
    ELSE IF body = "inline" THEN [a |-> 0, b |-> 1]
    ELSE IF body = "break" THEN [a |-> 1]
    ELSE [a |-> 0]

\* A spine item: its body, and whether item.load succeeds
Items == [body : Bodies, loads : BOOLEAN]

RECURSIVE SpinesOf(_)
SpinesOf(n) ==
    IF n = 0 THEN {<< >>}
    ELSE SpinesOf(n - 1)
         \cup {Append(sp, it) : sp \in {x \in SpinesOf(n - 1) : Len(x) = n - 1},
                                it \in Items}

Spines == SpinesOf(MaxSections) \ {<< >>}

\* The key of the map for an item: <<i, "">> is item.href, <<i, id>> is
\* item.href#id
Href(i, id) == <<i, id>>

\* --------------------------------------------------------- the spine loop
\* "Force a newline between spine items if not present"
NeedsSeparator(tokens, chunkTokens) ==
    /\ Len(tokens) > 0
    /\ ~tokens[Len(tokens)].nl
    /\ ~chunkTokens[1].nl

\* Append tokens
AppendChunk(tokens, chunkTokens) ==
    IF Len(chunkTokens) > 0
    THEN tokens \o (IF NeedsSeparator(tokens, chunkTokens) THEN <<Separator>> ELSE << >>)
                \o chunkTokens
    ELSE tokens

\* hrefToIndexMap after the body of the loop for item i
MapItem(map, i, it, chunkStartIndex) ==
    LET ids == IF it.loads THEN DOMAIN Anchors(it.body) ELSE {}
        keys == {Href(i, "")} \cup {Href(i, id) : id \in ids}
    IN [k \in DOMAIN map \cup keys |->
          IF k = Href(i, "") THEN chunkStartIndex
          ELSE IF k \in keys THEN chunkStartIndex + Anchors(it.body)[k[2]]
          ELSE map[k]]

\* for (const item of items): the item after item i; a failed item is
\* skipped ("continue")
AfterItem(i, loaded, n) == i + 1

EpubFrame ==
    /\ UNCHANGED vars
    /\ UNCHANGED closeVars
    /\ UNCHANGED console
    /\ UNCHANGED appVars
    /\ UNCHANGED engineVars
    /\ UNCHANGED bookVars
    /\ UNCHANGED debounceVars
    /\ UNCHANGED <<folders, glossary, settingsStore, backup>>

\* processFiles -> parseFile -> parseEpub, up to the spine loop: the file is
\* read and opened (book.ready), or parseEpub rejects and processFiles alerts
OpenEpub ==
    /\ upload = "idle"
    /\ \E ready \in BOOLEAN : upload' = IF ready THEN "parsing" ELSE "alerted"
    /\ UNCHANGED <<spine, item, allTokens, hrefToIndexMap, books, outcome>>
    /\ EpubFrame

\* one pass of the spine loop
LoadItem ==
    /\ upload = "parsing"
    /\ item <= Len(spine)
    /\ LET it == spine[item]
           chunkStartIndex == Len(allTokens)
       IN /\ hrefToIndexMap' = MapItem(hrefToIndexMap, item, it, chunkStartIndex)
          /\ allTokens' = IF it.loads
                           THEN AppendChunk(allTokens, ChunkTokens(item, it.body))
                           ELSE allTokens
          /\ item' = AfterItem(item, it.loads, Len(spine))
    /\ UNCHANGED <<spine, upload, books, outcome>>
    /\ EpubFrame

\* after the loop: parseEpub resolves and processFiles calls saveBook
ResolveEpub ==
    /\ upload = "parsing"
    /\ item > Len(spine)
    /\ upload' = "saving"
    /\ UNCHANGED <<spine, item, allTokens, hrefToIndexMap, books, outcome>>
    /\ EpubFrame

\* saveBook(newBook) of processFiles and its catch
SaveParsed ==
    /\ upload = "saving"
    /\ \E fate \in Fates :
          /\ books' = IF fate = "complete"
                       THEN Put(books, BookNames[2], NewBook(BookNames[2], Null))
                       ELSE books
          /\ outcome' = [op |-> "saveBook", promise |-> Settled(fate)]
          /\ upload' = IF fate = "complete" THEN "saved"
                        ELSE IF fate = "error" THEN "alerted"
                        ELSE "waiting"
    /\ UNCHANGED <<spine, item, allTokens, hrefToIndexMap>>
    /\ EpubFrame

InitEpub ==
    /\ ReaderIdle
    /\ AppIdle
    /\ StoreIdle
    /\ BookIdle
    /\ DebounceIdle
    /\ EngineIdle
    /\ spine \in Spines
    /\ item = 1
    /\ allTokens = << >>
    /\ hrefToIndexMap = << >>
    /\ upload = "idle"

NextEpub == OpenEpub \/ LoadItem \/ ResolveEpub \/ SaveParsed

epubAll == <<spine, item, allTokens, hrefToIndexMap, upload, books, outcome>>

SpecEpub == InitEpub /\ [][NextEpub]_epubAll

\* ----------------------------------------------------------------- claims
Processed == {i \in 1..Len(spine) : i < item /\ spine[i].loads}

\* The token of the concatenated array at a position of the map
TokenAt(key) == allTokens[hrefToIndexMap[key] + 1]

\* C17: every anchor of a loaded section identifies, in the concatenated
\* array, the token its local offset identified in the section, and the bare
\* section key identifies the section's first token.
C17_AnchorsIdentifyTokens ==
    \A i \in Processed :
       LET chunkTokens == ChunkTokens(i, spine[i].body)
           anchors == Anchors(spine[i].body)
       IN /\ \A id \in DOMAIN anchors :
               anchors[id] < Len(chunkTokens) =>
                  /\ hrefToIndexMap[Href(i, id)] < Len(allTokens)
                  /\ TokenAt(Href(i, id)) = chunkTokens[anchors[id] + 1]
          /\ Len(chunkTokens) > 0 =>
                /\ hrefToIndexMap[Href(i, "")] < Len(allTokens)
                /\ TokenAt(Href(i, "")) = chunkTokens[1]

\* The tokens of the items that loaded, in spine order
RECURSIVE LoadedTokens(_, _)
LoadedTokens(sp, i) ==
    IF i > Len(sp) THEN << >>
    ELSE (IF sp[i].loads THEN ChunkTokens(i, sp[i].body) ELSE << >>)
         \o LoadedTokens(sp, i + 1)

SectionsInOrder ==
    upload \in {"saving", "saved"} =>
       SelectSeq(allTokens, LAMBDA t : t # Separator) = LoadedTokens(spine, 1)

ImportEnded == upload \in {"alerted", "waiting"}

\* C18: an import that ends without a saved document has reported the
\* failure and left no record of the file; an item that fails to load is
\* skipped and the items after it are imported in order.
C18_ImportFailurePolicy ==
    /\ ImportEnded => upload = "alerted" /\ BookNames[2] \notin DOMAIN books
    /\ SectionsInOrder

\* ------------------------------------------------------ closing a session
CloseTokens == 2

\* What the callbacks of an unmounted component leave alone: its state
\* setters do nothing, no render follows and no effect runs.
Detached ==
    /\ ~mounted
    /\ UNCHANGED <<currentIndex, indexRef, isPlaying, voiceSettings, settings,
                   smooth2, navSpeak>>
    /\ UNCHANGED closeVars
    /\ UNCHANGED stale
    /\ Outside

\* The callbacks of the unmounted component that do not log.
Unmounted == Detached /\ Quiet

\* onUpdateProgress(position): handleProgressUpdate passes the position to
\* saveProgress for the open book
handleProgressUpdate(position) == <<position>>

\* The periodic save: every 30 s of a playing session
PeriodicSave ==
    /\ mounted
    /\ isPlaying
    /\ progress # handleProgressUpdate(indexRef)
    /\ progress' = handleProgressUpdate(indexRef)
    /\ UNCHANGED <<mounted, closeWrites>>
    /\ UNCHANGED vars
    /\ UNCHANGED stale
    /\ Outside
    /\ Quiet

\* The timeouts the unmount leaves alive: the auto-play timeout of the mount
\* effect is cleared, the deferred speakText calls are not.
SurvivesUnmount(p) == p.kind # "auto"

\* handleCloseReader: the Reader unmounts and the cleanups of its effects run
\* in the order of their declaration: the progress write, then the
\* cancellation of the interval, of speech and of the animation frames.
Close ==
    /\ mounted
    /\ mounted' = FALSE
    /\ closeWrites' = Append(closeWrites, indexRef)
    /\ progress' = handleProgressUpdate(indexRef)
    /\ shouldPlay' = FALSE
    /\ cancelled' = cancelled + Len(queue)
    /\ queue' = <<>>
    /\ timer' = FALSE
    /\ pending' = SelectSeq(pending, SurvivesUnmount)
    /\ UNCHANGED <<currentIndex, indexRef, isPlaying, next, voiceSettings, settings,
                   smooth2, navSpeak>>
    /\ UNCHANGED stale
    /\ Outside
    /\ Quiet

\* A deferred speakText of a seek or of the voice-settings effect fires after
\* the unmount.
LateTimeout(i) ==
    /\ CanFire(i)
    /\ pending' = RemoveAt(pending, i)
    /\ Speak(speakText(words, mode, pending[i].idx, pending[i].sc,
                       voiceSettings.repeatMode))
    /\ Unmounted

\* The interval callback after the unmount.  setCurrentIndex changes nothing;
\* its updater still runs while the component has no update queued, and at
\* the last token it stops the interval.
LateTick ==
    /\ timer
    /\ IF ~shouldPlay
       THEN timer' = FALSE /\ UNCHANGED shouldPlay
       ELSE IF currentIndex >= Len(words) - 1
       THEN shouldPlay' = FALSE /\ timer' = FALSE
       ELSE UNCHANGED <<shouldPlay, timer>>
    /\ UNCHANGED <<queue, cancelled, next, pending>>
    /\ Unmounted

\* u.onend after the unmount, with eq and c as in OnEnd
LateOnEnd(eq, c) ==
    LET q == enqueueNextChunk(words, voiceSettings.repeatMode,
                 [should |-> shouldPlay, queue |-> eq, cancelled |-> c, next |-> next])
        finished == ActiveSize(q.queue, q.cancelled) = 0 /\ q.next >= Len(words)
    IN /\ queue' = q.queue
       /\ cancelled' = q.cancelled
       /\ next' = q.next
       /\ shouldPlay' = IF finished THEN FALSE ELSE shouldPlay
       /\ UNCHANGED <<timer, pending>>
       /\ Unmounted

\* The engine finishes, after the unmount, the utterance it is speaking.
LateUtteranceEnd == queue # <<>> /\ LateOnEnd(Tail(queue), cancelled)

\* The engine fails, after the unmount, the utterance it is speaking.
LateUtteranceError ==
    /\ queue # <<>>
    /\ queue' = Tail(queue)
    /\ \E error \in FailureErrors : console' = Log(error)
    /\ UNCHANGED <<shouldPlay, timer, cancelled, next, pending>>
    /\ Detached

\* The terminal event of an utterance cancel() removed arrives after the
\* unmount, as an error or as an end event.
LateCancelledError ==
    /\ cancelled > 0
    /\ cancelled' = cancelled - 1
    /\ \E error \in CancelErrors : console' = Log(error)
    /\ UNCHANGED <<shouldPlay, timer, queue, next, pending>>
    /\ Detached

LateCancelledEnd == cancelled > 0 /\ LateOnEnd(queue, cancelled - 1)

NextClose ==
    \/ Next
    \/ PeriodicSave
    \/ Close
    \/ \E i \in 1..Len(pending) : LateTimeout(i)
    \/ LateTick
    \/ LateUtteranceEnd
    \/ LateUtteranceError
    \/ LateCancelledError
    \/ LateCancelledEnd

closeAll == <<vars, closeVars>>

\* The sessions that are closed: those of the documents of up to CloseTokens
\* tokens.
InitClose == Init /\ Len(words) <= CloseTokens

SpecClose == InitClose /\ [][NextClose]_closeAll

\* ----------------------------------------------------------------- claims
\* The session is closed.
Closed == ~mounted

\* The unmount has made one progress write, with the index the session had
\* when it closed.
OneFinalWrite == Closed => closeWrites = <<currentIndex>>

\* The index of a closed session does not change.
IndexFrozen == [][Closed => currentIndex' = currentIndex /\ indexRef' = indexRef]_closeAll

\* C19: once the session is closed the silent timer is not running, the
\* speech engine holds no utterance of the session and playback is not
\* requested, and the unmount has made exactly one progress write, with the
\* index the session had at its close.
C19_CloseCancelsEverything ==
    Closed => /\ ~timer
              /\ queue = <<>>
              /\ ~shouldPlay
              /\ closeWrites = <<currentIndex>>

\* ------------------------------------------------------ debounced settings
SettingsDelay == 1000
Step == 500
MaxTime == 3000
MaxBurst == 3

\* The values a slot is given.
Values(slot) == IF slot = "app" THEN {"s1", "s2"} ELSE {"v1", "v2"}

\* window.setTimeout(() => saveSettings(slot, newSettings), 1000)
SettingsTimeout(newSettings) == [value |-> newSettings, due |-> now + SettingsDelay]

\* A handler that sets its timeout and leaves the earlier one alive
SetOnly(live, t) == Append(live, t)

\* clearTimeout(ref.current); ref.current = setTimeout(...): the live timeouts
\* of the slot after the handler
ClearThenSet(live, t) == <<t>>

DebounceFrame ==
    /\ UNCHANGED vars
    /\ UNCHANGED closeVars
    /\ UNCHANGED console
    /\ UNCHANGED appVars
    /\ UNCHANGED engineVars
    /\ UNCHANGED bookVars
    /\ UNCHANGED epubVars
    /\ UNCHANGED <<books, folders, glossary, backup>>

\* The body the two handlers share: set the state, replace the timeout
UpdateSlot(slot, newSettings) ==
    /\ sinceChange[slot] = 0 => burst[slot] < MaxBurst
    /\ chosen' = [chosen EXCEPT ![slot] = <<newSettings>>]
    /\ timeouts' = [timeouts EXCEPT ![slot] = ClearThenSet(@, SettingsTimeout(newSettings))]
    /\ lastChange' = [lastChange EXCEPT ![slot] = now]
    /\ burst' = [burst EXCEPT ![slot] = IF sinceChange[slot] > 0 THEN 1 ELSE @ + 1]
    /\ sinceChange' = [sinceChange EXCEPT ![slot] = 0]
    /\ UNCHANGED <<now, settingsStore, outcome>>
    /\ DebounceFrame

\* handleUpdateSettings(newSettings)
handleUpdateSettings(newSettings) == UpdateSlot("app", newSettings)

\* handleUpdateVoiceSettings(newSettings)
handleUpdateVoiceSettings(newSettings) == UpdateSlot("voice", newSettings)

\* A timeout that is due: its delay has passed.
Due(t) == t.due <= now

\* The timeout of a slot fires: saveSettings(slot, newSettings)
SaveSettings(slot) ==
    /\ timeouts[slot] # <<>>
    /\ Due(Head(timeouts[slot]))
    /\ timeouts' = [timeouts EXCEPT ![slot] = Tail(@)]
    /\ sinceChange' = [sinceChange EXCEPT ![slot] = @ + 1]
    /\ \E fate \in Fates :
          /\ settingsStore' = IF fate = "complete"
                              THEN Put(settingsStore, slot, Head(timeouts[slot]).value)
                              ELSE settingsStore
          /\ outcome' = [op |-> "saveSettings", promise |-> Settled(fate)]
    /\ UNCHANGED <<now, chosen, lastChange, burst>>
    /\ DebounceFrame

\* Time passes, once the timeouts that are due have fired.
Tick ==
    /\ now + Step <= MaxTime
    /\ \A slot \in Slots : \A i \in 1..Len(timeouts[slot]) : ~Due(timeouts[slot][i])
    /\ now' = now + Step
    /\ UNCHANGED <<chosen, timeouts, lastChange, burst, sinceChange, settingsStore, outcome>>
    /\ DebounceFrame

InitSettings ==
    ReaderIdle /\ StoreIdle /\ BookIdle /\ EpubIdle /\ DebounceIdle /\ AppIdle
    /\ EngineIdle

NextSettings ==
    \/ \E v \in Values("app") : handleUpdateSettings(v)
    \/ \E v \in Values("voice") : handleUpdateVoiceSettings(v)
    \/ \E slot \in Slots : SaveSettings(slot)
    \/ Tick

settingsAll == <<debounceVars, settingsStore, outcome>>

SpecSettings == InitSettings /\ [][NextSettings]_settingsAll

\* ----------------------------------------------------------------- claims
\* The slot was changed.
Changed(slot) == chosen[slot] # <<>>

\* The step calls saveSettings for the slot.
Writes(slot) == sinceChange'[slot] = sinceChange[slot] + 1

\* The step is a call of the slot's handler.
Changes(slot) == burst'[slot] # burst[slot] \/ lastChange'[slot] # lastChange[slot]
                 \/ chosen'[slot] # chosen[slot]

\* A write of the slot is the first since the slot's last change, is made
\* between SettingsDelay and SettingsDelay + Step after it, and carries its
\* value.
WriteIsDebounced(slot) ==
    Writes(slot) =>
        /\ sinceChange[slot] = 0
        /\ now >= lastChange[slot] + SettingsDelay
        /\ now < lastChange[slot] + SettingsDelay + Step
        /\ <<Head(timeouts[slot]).value>> = chosen[slot]

\* Once the delay has passed the write of the last change has been made.
WriteIsMade(slot) ==
    Changed(slot) /\ now >= lastChange[slot] + SettingsDelay + Step => sinceChange[slot] = 1

\* A change or a write of one slot leaves the timeouts and the writes of the
\* other slot as they were.
Independent(slot) ==
    Changes(slot) \/ Writes(slot) =>
        \A other \in Slots \ {slot} :
            /\ timeouts'[other] = timeouts[other]
            /\ sinceChange'[other] = sinceChange[other]
            /\ lastChange'[other] = lastChange[other]

\* C20: after the changes of a burst one saveSettings call is made for the
\* slot, between SettingsDelay and SettingsDelay + Step after the last change
\* and with the value of that change, and none before; the changes and the
\* writes of one slot do not move or cancel those of the other slot.
C20_SettingsDebounced ==
    /\ [](\A slot \in Slots : WriteIsMade(slot) /\ sinceChange[slot] <= 1)
    /\ [][\A slot \in Slots : WriteIsDebounced(slot) /\ Independent(slot)]_settingsAll

\* The app slot was changed twice or more in a burst that ended with "s2",
\* the voice slot was changed during that burst, and each slot has had its
\* one write, the app slot's stored.
C20_Witness ==
    /\ burst["app"] >= 2
    /\ chosen["app"] = <<"s2">>
    /\ sinceChange["app"] = 1
    /\ "app" \in DOMAIN settingsStore
    /\ settingsStore["app"] = "s2"
    /\ Changed("voice")
    /\ lastChange["voice"] < lastChange["app"]
    /\ lastChange["voice"] > 0
    /\ sinceChange["voice"] = 1

\* ----------------------------------------------------- utterance errors
\* The members of activeUtterancesRef.current
InFlight == ActiveSize(queue, cancelled)

\* The step is a call of u.onerror.
ErrorEvent == UtteranceError \/ CancelledError

\* C21: an error event of an utterance removes that utterance from the
\* in-flight set and submits nothing (the engine queue gets no new utterance
\* and the chunk pointer stays), leaves the current index and the playback
\* flags as they were, and calls console.error for a failure and not for
\* 'interrupted' or 'canceled'.
C21_ErrorDropsUtterance ==
    [][/\ ErrorEvent =>
            /\ InFlight' = InFlight - 1
            /\ Len(queue') <= Len(queue)
            /\ \A i \in 1..Len(queue') : \E j \in 1..Len(queue) : queue'[i] = queue[j]
            /\ next' = next
            /\ currentIndex' = currentIndex
            /\ indexRef' = indexRef
            /\ isPlaying' = isPlaying
            /\ shouldPlay' = shouldPlay
       /\ UtteranceError => console' \in {<<e>> : e \in FailureErrors}
       /\ CancelledError => console' = <<>>]_<<vars, console>>

\* A failure of the utterance being spoken has just been handled while the
\* session plays: it was logged, and the utterance queued behind it is now
\* the one spoken.
C21_Witness ==
    /\ console # <<>>
    /\ isPlaying
    /\ queue # <<>>
    /\ mounted

\* ------------------------------------------------------------ the glossary
\* The characters of a selected word: \w, ' and - are kept by the key, the
\* rest is removed; upper case becomes lower case.
KeyChars == {"a", "b", "A", "B", "'", "-"}
LowerCase(c) == IF c = "A" THEN "a" ELSE IF c = "B" THEN "b" ELSE c

\* handleToggleHighlight: selectedWord.replace(/[^\w\s'-]/g, '').toLowerCase()
CleanKey(selectedWord) ==
    LET kept == SelectSeq(selectedWord, LAMBDA c : c \in KeyChars)
    IN [i \in 1..Len(kept) |-> LowerCase(kept[i])]

\* The words a reader selects, and the definitions the dictionary gives.
SelectedWords == {<<"A", "b">>, <<"a", "b", ".">>, <<"b">>}
Definitions == {"d1", "d2"}

\* The glossary a book record of an earlier version carries: book.glossary
LegacyGlossary(keys) == [k \in keys |-> GlossaryItem(k, "d1")]
LegacyKeys == {CleanKey(w) : w \in SelectedWords}

\* handleToggleHighlight(definition) on the selected word
ToggleHighlight(selectedWord, definition) ==
    LET cleanKey == CleanKey(selectedWord)
    IN IF cleanKey \in DOMAIN glossaryState
       THEN DeleteGlossaryItem(cleanKey)
       ELSE SaveGlossaryItem(GlossaryItem(cleanKey, definition))

\* Object.values(record)
RangeOf(f) == {f[k] : k \in DOMAIN f}

\* loadData: the items of the book glossaries the global glossary lacks
LegacyItems(bs, gs) ==
    {it \in UNION {RangeOf(bs[b].glossary) : b \in {x \in DOMAIN bs : "glossary" \in DOMAIN bs[x]}} :
        it.word \notin DOMAIN gs}

\* loadData: mergedGlossary
MergedGlossary(bs, gs) ==
    [k \in DOMAIN gs \cup {it.word : it \in LegacyItems(bs, gs)} |->
        IF k \in DOMAIN gs THEN gs[k]
        ELSE CHOOSE it \in LegacyItems(bs, gs) : it.word = k]

\* loadData (App mount, handleCloseReader, onRefresh): the glossary part.  The
\* items merged in are saved to the store.
LoadData ==
    /\ glossaryState' = MergedGlossary(books, glossary)
    /\ glossary' = MergedGlossary(books, glossary)
    /\ UNCHANGED <<books, folders, settingsStore, backup, outcome, unhighlighted>>
    /\ GlossaryFrame

\* A library after its first load: one book, with or without a glossary of
\* its own.
InitGlossary ==
    /\ ReaderIdle
    /\ BookIdle
    /\ EpubIdle
    /\ DebounceIdle
    /\ EngineIdle
    /\ \E keys \in SUBSET LegacyKeys :
          books = Put(Empty, BookNames[1],
                      IF keys = {} THEN NewBook(BookNames[1], Null)
                      ELSE NewBook(BookNames[1], Null) @@ [glossary |-> LegacyGlossary(keys)])
    /\ folders = Empty
    /\ settingsStore = Empty
    /\ backup = <<>>
    /\ outcome = [op |-> "none", promise |-> "none"]
    /\ glossary = MergedGlossary(books, Empty)
    /\ glossaryState = glossary
    /\ unhighlighted = {}
    /\ chapters = <<>>

NextGlossary ==
    \/ \E w \in SelectedWords : \E d \in Definitions : ToggleHighlight(w, d)
    \/ LoadData

glossaryAll == <<glossary, glossaryState, unhighlighted, outcome>>

SpecGlossary == InitGlossary /\ [][NextGlossary]_glossaryAll

\* ----------------------------------------------------------------- claims
\* C22: a key an un-highlight has deleted from the in-memory glossary and
\* from the store is in neither of them, whatever loads of the library data
\* follow, until the user highlights the word again.
C22_UnhighlightedStaysAbsent ==
    \A k \in unhighlighted : k \notin DOMAIN glossaryState /\ k \notin DOMAIN glossary

\* ----------------------------------------------------------- sentence seeks
MaxSentenceTokens == 4

\* The tokens a sentence lookup tells apart: a word, a word that ends a
\* sentence, and a line break.
SentenceTokens == {T_ab, T_d, NL}

RECURSIVE ArraysOf(_, _)
ArraysOf(tokens, n) ==
    IF n = 0 THEN {<<>>}
    ELSE {<<>>} \cup {<<t>> \o a : t \in tokens, a \in ArraysOf(tokens, n - 1)}

SentenceDocs == ArraysOf(SentenceTokens, MaxSentenceTokens) \ {<<>>}

\* A session that is mounted and paused, at any token of any document.
InitSentences ==
    /\ words \in SentenceDocs
    /\ mode = "scroll"
    /\ currentIndex \in 0..(Len(words) - 1)
    /\ indexRef = currentIndex
    /\ isPlaying = FALSE
    /\ shouldPlay = FALSE
    /\ timer = FALSE
    /\ cancelled = 0
    /\ queue = <<>>
    /\ next = 0
    /\ voiceSettings = CHOOSE v \in VoiceSettingsSet : v.normalEnabled /\ v.repeatMode = "off"
    /\ settings = [wheelContinuousMode |-> FALSE, audioTextDelay |-> 0]
    /\ smooth2 = 0
    /\ navSpeak = SpeakClosure(mode, voiceSettings, settings)
    /\ pending = <<>>
    /\ mounted = TRUE
    /\ progress = <<>>
    /\ closeWrites = <<>>
    /\ console = <<>>
    /\ AppIdle
    /\ StoreIdle
    /\ BookIdle
    /\ EpubIdle
    /\ DebounceIdle
    /\ EngineIdle

NextSentences == \E direction \in {-1, 1} : NavigateBySentence(direction)

SpecSentences == InitSentences /\ [][NextSentences]_vars

\* ----------------------------------------------------------------- claims
\* Token k ends a sentence: it is a line break or ends in . ! or ?
Breaks(ws, k) == ws[k + 1] = NL \/ EndsSentence(ws[k + 1])

\* The sentence of token i: from the token after the last break before i to
\* the first break at or after i, or the last token.
StartOf(ws, i) ==
    CHOOSE s \in 0..i : /\ \A k \in s..(i - 1) : ~Breaks(ws, k)
                        /\ s = 0 \/ Breaks(ws, s - 1)

EndOf(ws, i) ==
    CHOOSE e \in i..(Len(ws) - 1) : /\ \A k \in i..(e - 1) : ~Breaks(ws, k)
                                    /\ e = Len(ws) - 1 \/ Breaks(ws, e)

\* The tokens before s that are not line breaks: the last of them is the
\* last token of the sentence that precedes the one starting at s.
WordsBefore(ws, s) == {k \in 0..(s - 1) : ws[k + 1] # NL}

LastOf(set) == CHOOSE k \in set : \A j \in set : j <= k

BackwardTarget(ws, i) ==
    LET s == StartOf(ws, i)
    IN IF i > s + 2 THEN s
       ELSE IF WordsBefore(ws, s) = {} THEN 0
       ELSE StartOf(ws, LastOf(WordsBefore(ws, s)))

ForwardTarget(ws, i) == Min(Len(ws) - 1, EndOf(ws, i) + 1)

\* C23: a backward sentence seek from token i of a sentence that starts at s
\* moves to s when i > s + 2 and otherwise to the start of the sentence that
\* immediately precedes it; a forward seek moves to the first token after the
\* end of the sentence, or to the last token.
C23_SentenceSeek ==
    [][/\ NavigateBySentence(1) => currentIndex' = ForwardTarget(words, currentIndex)
       /\ NavigateBySentence(-1) => currentIndex' = BackwardTarget(words, currentIndex)]_vars

\* The forward seek alone.
ForwardSeek ==
    [][NavigateBySentence(1) => currentIndex' = ForwardTarget(words, currentIndex)]_vars

\* The backward seek from deep in a sentence alone.
BackwardDeep ==
    [][NavigateBySentence(-1) /\ currentIndex > StartOf(words, currentIndex) + 2
          => currentIndex' = StartOf(words, currentIndex)]_vars

\* C24: the range of a token is the range of its own start and of every
\* token in it.
C24_SentenceRangeIdempotent ==
    LET range == getSentenceRange(words, currentIndex)
    IN /\ getSentenceRange(words, range.start) = range
       /\ \A k \in range.start..range.end : getSentenceRange(words, k) = range

\* A token in the middle of a sentence of three tokens or more that another
\* sentence follows.
C24_Witness ==
    LET range == getSentenceRange(words, currentIndex)
    IN /\ range.start < currentIndex
       /\ currentIndex < range.end
       /\ range.end < Len(words) - 1
       /\ mounted

\* --------------------------------------------------------- table of contents
MaxEntries == 3
TocTokens == 4

\* A Chapter (src/constants.ts): title left out, it takes no part in the
\* resolution.
Chapter(position, subchapters) == [position |-> position, subchapters |-> subchapters]

\* The chapter lists of at most n entries, children included, at the given
\* positions: mapTocItem gives an entry the position its target resolves to,
\* or 0, in the order of the navigation document.
RECURSIVE ChapterLists(_, _)
ChapterLists(positions, n) ==
    IF n = 0 THEN {<<>>}
    ELSE {<<>>} \cup
         UNION {{<<Chapter(p, sub)>> \o rest :
                    p \in positions,
                    sub \in ChapterLists(positions, k),
                    rest \in ChapterLists(positions, n - 1 - k)} : k \in 0..(n - 1)}

\* renderTocItems: the buttons of the list in the order they are rendered,
\* each with its chapter, its depth and data-toc-active.  firstChildPos is
\* Number.MAX_SAFE_INTEGER without a first child, above every index.
RECURSIVE renderTocItems(_, _, _)
renderTocItems(items, depth, parentLimit) ==
    LET RECURSIVE Map(_)
        Map(idx) ==
            IF idx > Len(items) THEN <<>>
            ELSE LET chapter == items[idx]
                     nextSiblingPos == IF idx + 1 <= Len(items)
                                       THEN items[idx + 1].position
                                       ELSE parentLimit
                     startsBefore == chapter.position <= currentIndex
                     endsAfter == nextSiblingPos > currentIndex
                     isActiveRange == startsBefore /\ endsAfter
                     hasStartedChild ==
                         /\ Len(chapter.subchapters) > 0
                         /\ chapter.subchapters[1].position <= currentIndex
                     isActive == isActiveRange /\ ~hasStartedChild
                 IN <<[chapter |-> chapter, depth |-> depth, isActive |-> isActive,
                       limit |-> nextSiblingPos]>>
                    \o renderTocItems(chapter.subchapters, depth + 1, nextSiblingPos)
                    \o Map(idx + 1)
    IN Map(1)

\* The table of contents as the Reader renders it: renderTocItems(book.chapters)
\* with the defaults depth = 0 and parentLimit = book.totalWords.
TocButtons == renderTocItems(chapters, 0, Len(words))

\* A session that is mounted and paused on a book of TocTokens tokens with
\* any table of contents.
InitToc ==
    /\ words = [k \in 1..TocTokens |-> T_ab]
    /\ mode = "scroll"
    /\ currentIndex \in 0..(Len(words) - 1)
    /\ indexRef = currentIndex
    /\ isPlaying = FALSE
    /\ shouldPlay = FALSE
    /\ timer = FALSE
    /\ cancelled = 0
    /\ queue = <<>>
    /\ next = 0
    /\ voiceSettings = CHOOSE v \in VoiceSettingsSet : v.normalEnabled /\ v.repeatMode = "off"
    /\ settings = [wheelContinuousMode |-> FALSE, audioTextDelay |-> 0]
    /\ smooth2 = 0
    /\ navSpeak = SpeakClosure(mode, voiceSettings, settings)
    /\ pending = <<>>
    /\ mounted = TRUE
    /\ progress = <<>>
    /\ closeWrites = <<>>
    /\ console = <<>>
    /\ glossaryState = << >>
    /\ unhighlighted = {}
    /\ chapters \in ChapterLists(ChapterPositions(words), MaxEntries)
    /\ StoreIdle
    /\ BookIdle
    /\ EpubIdle
    /\ DebounceIdle
    /\ EngineIdle

\* A click on a button of the table of contents, auto-play on
NextToc == \E b \in 1..Len(TocButtons) : TocJump(TocButtons[b].chapter.position)

SpecToc == InitToc /\ [][NextToc]_vars

\* ----------------------------------------------------------------- claims
\* The buttons rendered active
ActiveButtons == {b \in 1..Len(TocButtons) : TocButtons[b].isActive}

\* The span of a button: from its chapter's position to the position of the
\* next sibling, or to the end of the parent's span.
InSpan(b) ==
    /\ TocButtons[b].chapter.position <= currentIndex
    /\ currentIndex < TocButtons[b].limit

\* The buttons of the children of button b: the buttons that follow it at
\* the next depth, up to the next button that is not deeper than b.
ChildrenOf(b) ==
    {c \in (b + 1)..Len(TocButtons) :
        /\ TocButtons[c].depth = TocButtons[b].depth + 1
        /\ \A m \in (b + 1)..c : TocButtons[m].depth > TocButtons[b].depth}

\* The deepest chapters whose span contains the current index
Deepest == {b \in 1..Len(TocButtons) : InSpan(b) /\ \A c \in ChildrenOf(b) : ~InSpan(c)}

\* The lists in which siblings are in ascending order and children lie in
\* the span of their parent.
RECURSIVE Nested(_, _, _)
Nested(items, from, to) ==
    \A k \in 1..Len(items) :
        /\ from <= items[k].position
        /\ items[k].position <= to
        /\ k < Len(items) => items[k].position <= items[k + 1].position
        /\ Nested(items[k].subchapters, items[k].position,
                  IF k < Len(items) THEN items[k + 1].position ELSE to)

\* C25: the buttons marked active are the deepest chapters whose span contains
\* the current index, and from the first chapter's position on exactly one
\* button is active.
C25_ActiveChapter ==
    /\ ActiveButtons = Deepest
    /\ (chapters # <<>> /\ currentIndex >= chapters[1].position)
           => Cardinality(ActiveButtons) = 1

\* The same over the lists that are nested and in order, for the indices
\* inside the book.
ActiveChapterNested ==
    (Nested(chapters, 0, Len(words)) /\ currentIndex < Len(words)) => C25_ActiveChapter

\* The example: chapters at the first, second and fourth token, index at the
\* third: the second chapter is active.
ActiveChapterExample ==
    (chapters = <<Chapter(0, <<>>), Chapter(1, <<>>), Chapter(3, <<>>)>> /\ currentIndex = 2)
        => ActiveButtons = {2}

\* -------------------------------------------------------------- spritz word
MaxWordLength == 6
MaxSpritzTokens == 3

\* The word of length n: its characters differ, so that the parts of a split
\* tell where they came from.
Alphabet == <<"a", "b", "c", "d", "e", "f", "g", "h">>
WordOfLength(n) == [k \in 1..n |-> Alphabet[((k - 1) % Len(Alphabet)) + 1]]

SpritzTokens == {WordOfLength(n) : n \in 1..MaxWordLength} \cup {NL}
SpritzDocs == ArraysOf(SpritzTokens, MaxSpritzTokens) \ {<<>>}

\* String.prototype.slice(start, end): a negative bound counts from the end,
\* both are clamped to the string.
Slice(w, start, end) ==
    LET Bound(k) == IF k < 0 THEN Max(0, Len(w) + k) ELSE Min(k, Len(w))
    IN IF Bound(start) >= Bound(end) THEN <<>>
       ELSE SubSeq(w, Bound(start) + 1, Bound(end))

\* w[k] || '': the character at k, from 0, or the empty string
CharAt(w, k) == IF k \in 0..(Len(w) - 1) THEN <<w[k + 1]>> ELSE <<>>

\* WheelDisplay getPivot
getPivot(w) == IF Len(w) = 0 THEN 0 ELSE ((Len(w) + 1) \div 2) - 1

\* The split with the pivot at half the length.
renderSpritzAtHalf(word) ==
    LET pivot == Len(word) \div 2
    IN [pivot |-> pivot,
        pre |-> Slice(word, 0, pivot),
        center |-> CharAt(word, pivot),
        post |-> Slice(word, pivot + 1, Len(word))]

\* renderSpritz: the pivot and the three parts of the word
renderSpritz(word) ==
    LET pivot == ((Len(word) + 1) \div 2) - 1
    IN [pivot |-> pivot,
        pre |-> Slice(word, 0, pivot),
        center |-> CharAt(word, pivot),
        post |-> Slice(word, pivot + 1, Len(word))]

\* wordsRef.current[Math.floor(visualIndex)] || ''
SpritzWord == IF Visual \in 0..(Len(words) - 1) THEN words[Visual + 1] ELSE <<>>

\* A session that is mounted and paused in spritz mode, at any token.
InitSpritz ==
    /\ words \in SpritzDocs
    /\ mode = "spritz"
    /\ currentIndex \in 0..(Len(words) - 1)
    /\ indexRef = currentIndex
    /\ isPlaying = FALSE
    /\ shouldPlay = FALSE
    /\ timer = FALSE
    /\ cancelled = 0
    /\ queue = <<>>
    /\ next = 0
    /\ voiceSettings = CHOOSE v \in VoiceSettingsSet : v.normalEnabled /\ v.repeatMode = "off"
    /\ settings = [wheelContinuousMode |-> FALSE, audioTextDelay |-> 0]
    /\ smooth2 = 0
    /\ navSpeak = SpeakClosure(mode, voiceSettings, settings)
    /\ pending = <<>>
    /\ mounted = TRUE
    /\ progress = <<>>
    /\ closeWrites = <<>>
    /\ console = <<>>
    /\ AppIdle
    /\ StoreIdle
    /\ BookIdle
    /\ EpubIdle
    /\ DebounceIdle
    /\ EngineIdle

NextSpritz == \E direction \in {-1, 1} : NavigateBySentence(direction)

SpecSpritz == InitSpritz /\ [][NextSpritz]_vars

\* ----------------------------------------------------------------- claims
\* C26: for the displayed word of length L >= 1 the pivot is the p with
\* 2p + 1 <= L <= 2p + 2, that is floor((L + 1) / 2) - 1, it lies in 0..L-1,
\* WheelDisplay's getPivot agrees, the centre is the one character at the
\* pivot, and left part, centre and right part concatenate to the word.
C26_SpritzPivot ==
    LET word == SpritzWord
        r == renderSpritz(word)
    IN Len(word) >= 1 =>
        /\ 2 * r.pivot + 1 <= Len(word)
        /\ Len(word) <= 2 * r.pivot + 2
        /\ r.pivot \in 0..(Len(word) - 1)
        /\ getPivot(word) = r.pivot
        /\ r.center = <<word[r.pivot + 1]>>
        /\ Len(r.pre) = r.pivot
        /\ r.pre \o r.center \o r.post = word

\* After a seek a word of three characters is displayed, split a|b|c; so is
\* some word of one character, split at its only character.
C26_Witness ==
    /\ currentIndex > 0
    /\ Len(SpritzWord) = 3
    /\ renderSpritz(SpritzWord) = [pivot |-> 1, pre |-> <<"a">>, center |-> <<"b">>, post |-> <<"c">>]
    /\ \E k \in 1..Len(words) : Len(words[k]) = 1 /\ renderSpritz(words[k]).pivot = 0

\* ------------------------------------------------ the text of a structured
\* document, from the markup to the Reader
MaxNodes == 1
MaxTextLength == 3

\* The characters of a text node: a letter, a space, a line break and a
\* no-break space.
EpubChars == {"a", " ", "\n", NBSP}

RECURSIVE NodeTexts(_)
NodeTexts(n) ==
    IF n = 0 THEN {<<>>}
    ELSE NodeTexts(n - 1)
         \cup {Append(t, c) : t \in {x \in NodeTexts(n - 1) : Len(x) = n - 1},
                              c \in EpubChars}

\* The nodes of a body: a text node, <br/>, and <p> around a text node.
TextNode(text) == [tag |-> "#text", text |-> text, childNodes |-> <<>>]
Element(tag, childNodes) == [tag |-> tag, text |-> <<>>, childNodes |-> childNodes]

TextNodes == {TextNode(t) : t \in NodeTexts(MaxTextLength) \ {<<>>}}
Nodes == TextNodes \cup {Element("BR", <<>>)} \cup {Element("P", <<n>>) : n \in TextNodes}

\* The bodies of exactly n top-level nodes, and of at most n
RECURSIVE BodiesOfLength(_)
BodiesOfLength(n) ==
    IF n = 0 THEN {<<>>}
    ELSE {Append(b, node) : b \in BodiesOfLength(n - 1), node \in Nodes}

BodiesUpTo(n) == UNION {BodiesOfLength(k) : k \in 0..n}

\* The spines of one or two sections
TextSpines ==
    {<<b>> : b \in BodiesUpTo(MaxNodes)}
    \cup {<<b1, b2>> : b1 \in BodiesUpTo(MaxNodes), b2 \in BodiesUpTo(MaxNodes)}

\* text.replace(/[\n\r\t]+/g, ' ').replace(/[ ]+/g, ' ')
RECURSIVE Clean(_)
Clean(text) ==
    IF text = <<>> THEN <<>>
    ELSE LET c == IF Head(text) \in {"\n", "\t"} THEN " " ELSE Head(text)
             rest == Clean(Tail(text))
         IN IF c = " " /\ rest # <<>> /\ Head(rest) = " " THEN rest ELSE <<c>> \o rest

\* clean.split(' ')
RECURSIVE SplitSpace(_)
SplitSpace(clean) ==
    LET i == FirstIn(clean, {" "})
    IN IF i = 0 THEN <<clean>>
       ELSE <<SubSeq(clean, 1, i - 1)>> \o SplitSpace(SubSeq(clean, i + 1, Len(clean)))

BlockTags == {"P", "DIV", "H1", "H2", "H3", "H4", "H5", "H6", "LI", "TR",
              "BLOCKQUOTE", "SECTION", "ARTICLE", "HR"}

\* extractTokensAndAnchors: the tokens process(n) pushes
RECURSIVE process(_)
process(n) ==
    IF n.tag = "#text"
    THEN LET clean == Clean(n.text)
         IN IF Trim(clean) # <<>>
            THEN SelectSeq(SplitSpace(clean), LAMBDA w : Len(w) > 0)
            ELSE <<>>
    ELSE LET RECURSIVE Children(_)
             Children(i) ==
                 IF i > Len(n.childNodes) THEN <<>>
                 ELSE process(n.childNodes[i]) \o Children(i + 1)
         IN (IF n.tag = "BR" THEN <<NL>> ELSE <<>>)
            \o Children(1)
            \o (IF n.tag \in BlockTags THEN <<NL>> ELSE <<>>)

\* extractTokensAndAnchors(doc.body, chunkTokens): the tokens of a section
extractTokens(body) == process(Element("BODY", body))

\* The spine loop over sections that load: allTokens after items 1..i
RECURSIVE SpineTokens(_, _)
SpineTokens(sp, i) ==
    IF i = 0 THEN <<>>
    ELSE LET tokens == SpineTokens(sp, i - 1)
             chunkTokens == extractTokens(sp[i])
         IN IF Len(chunkTokens) > 0
            THEN tokens
                 \o (IF Len(tokens) > 0 /\ tokens[Len(tokens)] # NL /\ chunkTokens[1] # NL
                     THEN <<NL>> ELSE <<>>)
                 \o chunkTokens
            ELSE tokens

\* parseEpub: fullText, reconstructed from the tokens
fullText(tokens) ==
    LET RECURSIVE Text(_)
        Text(i) ==
            IF i > Len(tokens) THEN <<>>
            ELSE (IF tokens[i] = NL THEN NL
                  ELSE tokens[i]
                       \o (IF i < Len(tokens) /\ tokens[i + 1] # NL THEN <<" ">> ELSE <<>>))
                 \o Text(i + 1)
    IN Text(1)

\* parseFile on an .epub file: parseEpub walks the spine, rebuilds the text
\* from the tokens, and parseFile counts the tokens of the text.
ImportEpub ==
    /\ stage = "file"
    /\ allTokens' = SpineTokens(spine, Len(spine))
    /\ content' = fullText(allTokens')
    /\ totalWords' = countTokens(content')
    /\ stage' = "saved"
    /\ item' = Len(spine) + 1
    /\ UNCHANGED <<words, spine, hrefToIndexMap, upload>>
    /\ UNCHANGED <<mode, currentIndex, indexRef, isPlaying, shouldPlay, timer,
                   queue, cancelled, next, pending, voiceSettings, settings,
                   smooth2, navSpeak>>
    /\ UNCHANGED closeVars /\ UNCHANGED storeVars /\ UNCHANGED console
    /\ UNCHANGED appVars /\ UNCHANGED debounceVars
    /\ UNCHANGED engineVars

InitEpubText ==
    /\ ReaderIdle
    /\ AppIdle
    /\ StoreIdle
    /\ BookIdle
    /\ DebounceIdle
    /\ EngineIdle
    /\ spine \in TextSpines
    /\ item = 1
    /\ allTokens = <<>>
    /\ hrefToIndexMap = << >>
    /\ upload = "idle"

NextEpubText == ImportEpub \/ OpenBook \/ CloseBook

epubTextVars == <<spine, item, allTokens, content, totalWords, stage, words>>

SpecEpubText == InitEpubText /\ [][NextEpubText]_epubTextVars

\* ----------------------------------------------------------------- claims
\* C28: once the Reader has tokenized the stored text of an imported EPUB,
\* its token array is the array the importer built: the same length and the
\* same token at every index.
C28_EpubRoundTrip == stage = "open" => words = allTokens

\* The same for the documents without a no-break space.
RoundTripPlain ==
    LET Plain(n) == \A k \in 1..Len(n.text) : n.text[k] # NBSP
    IN (\A i \in 1..Len(spine) : \A j \in 1..Len(spine[i]) :
            /\ Plain(spine[i][j])
            /\ \A c \in 1..Len(spine[i][j].childNodes) : Plain(spine[i][j].childNodes[c]))
       => C28_EpubRoundTrip

\* The lengths agree although a token may differ
RoundTripLength == stage = "open" => Len(words) = Len(allTokens)

\* ------------------------------------------- events of cancelled utterances
StaleTokens == 2

\* The character offsets of the text of the utterance cancel() interrupted
StaleOffsets ==
    IF stale = <<>> THEN {} ELSE 0..(Len(FullText(words, stale[1])) - 1)

\* u.onboundary of utterance u at character offset c: the index the handler
\* leaves in currentIndex
onboundary(u, c) ==
    IF BoundaryIgnored(words, u, c) THEN currentIndex
    ELSE IF BoundaryIndex(words, u, c) # indexRef THEN BoundaryIndex(words, u, c)
    ELSE currentIndex

\* A boundary event of the utterance that cancel() interrupted arrives after
\* the cancel(): u.onboundary.
StaleBoundary(c) ==
    /\ stale # <<>>
    /\ c \in StaleOffsets
    /\ currentIndex' = onboundary(stale[1], c)
    /\ Render(currentIndex', isPlaying, voiceSettings, smooth2)
    /\ UNCHANGED <<isPlaying, shouldPlay, timer, queue, cancelled, next, pending,
                   voiceSettings, settings>>
    /\ mounted
    /\ UNCHANGED closeVars
    /\ UNCHANGED stale
    /\ Outside
    /\ Quiet

\* The sessions of the documents of up to StaleTokens tokens on an engine
\* that delivers the boundary events under way at cancel().
InitStale ==
    /\ InitSession
    /\ Len(words) <= StaleTokens
    /\ lateBoundaries = TRUE
    /\ stale = <<>>

NextStale ==
    \/ Next
    \/ \E c \in StaleOffsets : StaleBoundary(c)

staleAll == <<vars, engineVars>>

SpecStale == InitStale /\ [][NextStale]_staleAll

\* ----------------------------------------------------------------- claims
\* An event of an utterance that a seek, a pause or a restart has cancelled:
\* a boundary event under way, or the end event the engine owes to it.
StaleEvent == (\E c \in StaleOffsets : StaleBoundary(c)) \/ CancelledEnd

\* C29: an event of a cancelled utterance changes neither the current index
\* nor the chunk pointer nor the utterances in flight in the engine.
C29_StaleEventsIgnored ==
    [][StaleEvent => UNCHANGED <<currentIndex, next, queue>>]_staleAll

\* The end event of a cancelled utterance leaves index, pointer and queue.
StaleEndIgnored ==
    [][CancelledEnd => UNCHANGED <<currentIndex, next, queue>>]_staleAll

\* ------------------------------------------------------ the voiced chunks
\* Reader.tsx enqueueNextChunk and getNextLargeChunk over whole playback
\* runs: the documents of a few tokens in the four repeat modes, and with
\* repeat off the documents longer than TARGET_SIZE, whose first chunk is
\* cut by the lookback.
RunTokens == 5
LongExtra == 2

ShortDocs ==
    {SubSeq(Base, w[1], w[1] + w[2] - 1) :
        w \in {x \in DocStarts \X (1..RunTokens) : x[1] + x[2] - 1 <= Len(Base)}}

\* The indexes around the two ends of the lookback of a chunk taken near
\* the start of a long document.
BreakIndexes == {TARGET_SIZE - LOOKBACK, TARGET_SIZE - LOOKBACK + 1, TARGET_SIZE, TARGET_SIZE + 1}

\* A document of n tokens with the token brk at the indexes of breaks
LongDoc(n, breaks, brk) == [k \in 1..n |-> IF (k - 1) \in breaks THEN brk ELSE T_ab]

LongDocs ==
    {LongDoc(TARGET_SIZE + e, breaks, brk) :
        e \in 1..LongExtra, breaks \in SUBSET BreakIndexes, brk \in {T_d, NL}}

ChunkDocs == ShortDocs \cup LongDocs

\* The tokens a run starts at: any token of a short document, one of the
\* first tokens of a long one.
ChunkStarts(ws) == IF Len(ws) > TARGET_SIZE THEN 0..LongExtra ELSE 0..(Len(ws) - 1)

\* A voiced session after the mount; a long document is read with repeat off.
InitChunks ==
    /\ words \in ChunkDocs
    /\ mode = "scroll"
    /\ currentIndex \in ChunkStarts(words)
    /\ indexRef = currentIndex
    /\ isPlaying = FALSE
    /\ shouldPlay = FALSE
    /\ timer = FALSE
    /\ cancelled = 0
    /\ queue = <<>>
    /\ next = 0
    /\ voiceSettings \in {v \in VoiceSettingsSet :
                            /\ v.normalEnabled
                            /\ Len(words) > TARGET_SIZE => v.repeatMode = "off"}
    /\ settings = [wheelContinuousMode |-> FALSE, audioTextDelay |-> 0]
    /\ smooth2 = 0
    /\ navSpeak = SpeakClosure(mode, voiceSettings, settings)
    /\ pending = <<Timeout("auto", currentIndex, navSpeak)>>
    /\ mounted = TRUE
    /\ progress = <<>>
    /\ closeWrites = <<>>
    /\ console = <<>>
    /\ AppIdle
    /\ StoreIdle
    /\ BookIdle
    /\ EpubIdle
    /\ DebounceIdle
    /\ EngineIdle

\* The steps of a playback run: its start by the auto-play timeout or the
\* play button, the end of the utterance being spoken, and the pause.
NextChunks ==
    \/ TogglePlay
    \/ \E i \in 1..Len(pending) : FireTimeout(i)
    \/ UtteranceEnd

SpecChunks == InitChunks /\ [][NextChunks]_vars

\* ----------------------------------------------------------------- claims
\* Tokens a..b-1 are all white space: the chunks taken there were skipped.
SkippedRange(ws, a, b) == \A k \in a..(b - 1) : IsBlank(ws[k + 1])

\* The utterances us and the skipped tokens between them tile the tokens
\* from index from up to index to, each utterance holding a token at least.
Tiles(ws, from, us, to) ==
    LET endOf(i) == IF i = 0 THEN from ELSE us[i].end
    IN /\ \A i \in 1..Len(us) :
            /\ endOf(i - 1) <= us[i].start
            /\ SkippedRange(ws, endOf(i - 1), us[i].start)
            /\ us[i].start < us[i].end
       /\ endOf(Len(us)) <= to
       /\ SkippedRange(ws, endOf(Len(us)), to)
       /\ to <= Len(ws)

\* A step that calls speakText: the play button or a timeout
RunStart == ~isPlaying \/ pending' # pending

\* The utterances of q1 that a step with the pointer at p enqueued
EnqueuedFrom(q1, p) == SelectSeq(q1, LAMBDA u : u.start >= p)

\* What a step of a run does to the pointer and the queue: the utterances it
\* enqueues and the blank chunks it skips tile the tokens from the pointer it
\* started with (the start index when the step starts the run) to the pointer
\* it leaves, an enqueue moves the pointer forward, and the utterances it
\* did not enqueue were in the queue before.
ChunkStep ==
    LET from == IF RunStart THEN currentIndex ELSE next
        kept == IF RunStart THEN {} ELSE Range(queue)
        us == EnqueuedFrom(queue', from)
    IN /\ Tiles(words, from, us, next')
       /\ us # <<>> => next' > from
       /\ \A u \in Range(queue') : u.start < from => u \in kept

\* C30: in a voiced run, under each repeat mode, every enqueue moves the
\* chunk pointer strictly forward, each chunk starts where the one before it
\* ended, and the pointer never exceeds the token count.
C30_ChunksPartition == [][shouldPlay' => ChunkStep]_vars

\* A long document read with repeat off: the first chunk was cut by the
\* lookback, the second starts where it ended and reaches the last token.
C30_Witness ==
    /\ Len(words) > TARGET_SIZE
    /\ Len(queue) = 2
    /\ queue[1].end - queue[1].start < TARGET_SIZE
    /\ queue[1].end < Len(words)
    /\ queue[2].start = queue[1].end
    /\ queue[2].end = Len(words)
    /\ next = Len(words)

====
